---- MODULE Spec2Model ----
(***************************************************************************)
(* Model of the stem dispatch pipeline: the progress store                 *)
(* (shared_state.py), the stem validator (utils/validators.py), the        *)
(* failure logger (utils/errors.py), the separation fallback engine, the   *)
(* track dispatcher and the batch runner (dispatch_download.py).           *)
(*                                                                         *)
(* Percent values are kept in hundredths of a percent (Pct(12) is 12 %),   *)
(* because incremental_progress rounds to two decimals.                    *)
(***************************************************************************)
EXTENDS Integers, Sequences, FiniteSets, TLC

(***************************************************************************)
(* Bounds of the model.                                                    *)
(***************************************************************************)
NumWorkers == 2      \* threads exercising the progress store directly
MaxOps == 3          \* store calls started in one run of the store threads

Pct(n) == n * 100

(***************************************************************************)
(* Progress records and their JSON form.  A record is a function from keys *)
(* to values; json.dumps turns it into text, modelled as the sequence of   *)
(* its <<key, value>> members, json.loads turns the text back into a       *)
(* mapping.                                                                *)
(***************************************************************************)
ProgressKeys == <<"message", "percent", "meta">>
MetaKeys == <<"completed", "total", "channel", "stem", "title", "track_id", "yt_enabled">>

KeysOf(order, d) == SelectSeq(order, LAMBDA k : k \in DOMAIN d)

DumpsObject(order, d) ==
  LET ks == KeysOf(order, d) IN [i \in 1..Len(ks) |-> <<ks[i], d[ks[i]]>>]

LoadsObject(s) ==
  [k \in {s[i][1] : i \in 1..Len(s)} |->
     LET i == CHOOSE j \in 1..Len(s) : s[j][1] = k IN s[i][2]]

Dumps(d) ==
  LET ks == KeysOf(ProgressKeys, d)
  IN  [i \in 1..Len(ks) |->
         <<ks[i], IF ks[i] = "meta" THEN DumpsObject(MetaKeys, d.meta) ELSE d[ks[i]]>>]

Loads(s) ==
  [k \in {s[i][1] : i \in 1..Len(s)} |->
     LET i == CHOOSE j \in 1..Len(s) : s[j][1] = k
     IN  IF k = "meta" THEN LoadsObject(s[i][2]) ELSE s[i][2]]

DefaultProgress == [message |-> "Waiting...", percent |-> 0]
NoRecord == [absent |-> TRUE]

\* dict.update / {**a, **b}: the members of b win
Merge(a, b) == b @@ a

(***************************************************************************)
(* The store: _progress_store maps a session id to the JSON text of its    *)
(* record; _progress_lock serialises every access.                         *)
(***************************************************************************)
StorePutPatch(st, sid, text) ==
  [k \in DOMAIN st \cup {sid} |->
     IF k = sid
     THEN IF sid \in DOMAIN st THEN Dumps(Merge(Loads(st[sid]), Loads(text))) ELSE text
     ELSE st[k]]

StorePutAll(st, sid, text) == [k \in DOMAIN st \cup {sid} |-> text]

StorePut(st, sid, text) ==
  [k \in DOMAIN st \cup {sid} |-> IF k = sid THEN text ELSE st[k]]

StorePop(st, sid) == [k \in DOMAIN st \ {sid} |-> st[k]]

StoreReadStrict(st, sid) ==
  IF sid \in DOMAIN st THEN Loads(st[sid]) ELSE [message |-> "KeyError", percent |-> 0]

StoreRead(st, sid) ==
  IF sid \in DOMAIN st THEN Loads(st[sid]) ELSE DefaultProgress

SetProgress(st, sid, data) == StorePut(st, sid, Dumps(data))
GetProgress(st, sid) == StoreRead(st, sid)
DeleteProgress(st, sid) == StorePop(st, sid)

NoHolder == 0
LockFreeAlways(l) == TRUE
LockFree(l) == l = NoHolder

(***************************************************************************)
(* Stem validator (utils/validators.py).  A directory maps each expected   *)
(* file name to a file or to NoFile; a file has a size in bytes, may or    *)
(* may not decode, and has a duration in seconds and an RMS level.         *)
(***************************************************************************)
MIN_BYTES == 80000
MIN_DURATION_S == 20
MIN_RMS == 5
EXPECTED == <<"vocals.mp3", "drums.mp3", "bass.mp3", "other.mp3">>
ExpectedNames == {EXPECTED[i] : i \in 1..Len(EXPECTED)}

NoFile == [absent |-> TRUE]
NoDir == [absent |-> TRUE]
EmptyMap == [k \in {} |-> ""]

\* the outcome of a call: whether it raised, and what it returned if not
RmsCallNoCatch(f) ==
  IF ~f.decodable THEN [raised |-> TRUE, value |-> FALSE]
  ELSE [raised |-> FALSE, value |-> f.duration >= MIN_DURATION_S /\ f.rms >= MIN_RMS]

\* _rms_ok: AudioSegment.from_file raises on a file it cannot decode, and
\* the except clause turns that into False
RmsCall(f) ==
  IF ~f.decodable THEN [raised |-> FALSE, value |-> FALSE]
  ELSE [raised |-> FALSE, value |-> f.duration >= MIN_DURATION_S /\ f.rms >= MIN_RMS]

RmsOk(f) == RmsCall(f).value

StemReasonStrict(f) ==
  IF f = NoFile THEN "missing"
  ELSE IF f.size <= MIN_BYTES THEN "too_small"
  ELSE IF ~RmsOk(f) THEN "silent_or_short"
  ELSE "ok"

StemReason(f) ==
  IF f = NoFile THEN "missing"
  ELSE IF f.size < MIN_BYTES THEN "too_small"
  ELSE IF ~RmsOk(f) THEN "silent_or_short"
  ELSE "ok"

ValidateStemsLax(dir) == [ok |-> TRUE, problems |-> EmptyMap]

ValidateStems(dir) ==
  LET bad == {n \in ExpectedNames : StemReason(dir[n]) # "ok"}
      problems == [n \in bad |-> StemReason(dir[n])]
  IN  [ok |-> bad = {}, problems |-> problems]

DecodedPresent(dir) == {n \in ExpectedNames : dir[n] # NoFile}
\* the files _rms_ok is called on: present and not below the size limit
Decoded(dir) == {n \in ExpectedNames : dir[n] # NoFile /\ dir[n].size >= MIN_BYTES}
NoValue == [ok |-> FALSE, problems |-> EmptyMap]
NotCalled == [called |-> FALSE, raised |-> FALSE, value |-> NoValue, decoded |-> {}]

\* a call of validate_stems: it has no handler of its own, so an exception
\* leaving _rms_ok would leave validate_stems
ValidateCall(dir) ==
  IF \E n \in Decoded(dir) : RmsCall(dir[n]).raised
  THEN [called |-> TRUE, raised |-> TRUE, value |-> NoValue, decoded |-> Decoded(dir)]
  ELSE [called |-> TRUE, raised |-> FALSE, value |-> ValidateStems(dir),
        decoded |-> Decoded(dir)]

GoodFile == [size |-> 4000000, decodable |-> TRUE, duration |-> 180, rms |-> 900]
SilentFile == [size |-> 4000000, decodable |-> TRUE, duration |-> 180, rms |-> 0]
TinyFile == [size |-> 417, decodable |-> FALSE, duration |-> 0, rms |-> 0]
\* files at the limits of the three checks, and a large file that is no audio
EdgeFile ==
  [size |-> MIN_BYTES, decodable |-> TRUE, duration |-> MIN_DURATION_S, rms |-> MIN_RMS]
SmallFile == [EdgeFile EXCEPT !.size = MIN_BYTES - 1]
ShortFile == [GoodFile EXCEPT !.duration = MIN_DURATION_S - 1]
QuietFile == [GoodFile EXCEPT !.rms = MIN_RMS - 1]
CorruptFile == [size |-> 4000000, decodable |-> FALSE, duration |-> 0, rms |-> 0]
FileStates ==
  {NoFile, TinyFile, SmallFile, EdgeFile, ShortFile, QuietFile, SilentFile,
   CorruptFile, GoodFile}

DirGood == [n \in ExpectedNames |-> GoodFile]
DirWeak == [n \in ExpectedNames |-> IF n = "bass.mp3" THEN SilentFile ELSE GoodFile]
DirPartial ==
  [n \in ExpectedNames |->
     IF n = "vocals.mp3" THEN NoFile ELSE IF n = "drums.mp3" THEN TinyFile ELSE GoodFile]

(***************************************************************************)
(* Constants of dispatch_download.py and content_base.py.                  *)
(***************************************************************************)
FALLBACK_MODELS == <<"htdemucs_6s", "htdemucs_ft", "htdemucs">>
Models == {FALLBACK_MODELS[i] : i \in 1..Len(FALLBACK_MODELS)}

CHANNEL_MODULE_MAP ==
  [son_got_acappellas |-> "Content_download_vocal",
   son_got_drums |-> "Content_download_drum",
   main_channel |-> "Content_download_main",
   sgs_2 |-> "Content_download_backup",
   sample_split |-> "Content_download_split"]

CHANNEL_NAME_MAP ==
  [son_got_acappellas |-> "Son Got Acappellas",
   son_got_drums |-> "Son Got Drums",
   main_channel |-> "Main Channel",
   sample_split |-> "Sample Split",
   sgs_2 |-> "SGS 2"]

ModelOutputDir(model, uid) == "separated/" \o model \o "/" \o uid
PreparedCopyPath(uid) == "MP3/" \o uid \o "__prep.mp3"

Upper(key) ==
  CASE key = "son_got_acappellas" -> "SON_GOT_ACAPPELLAS"
    [] key = "son_got_drums" -> "SON_GOT_DRUMS"
    [] key = "main_channel" -> "MAIN_CHANNEL"
    [] key = "sgs_2" -> "SGS_2"
    [] key = "sample_split" -> "SAMPLE_SPLIT"
    [] OTHER -> key

RECURSIVE JoinQuoted(_)
JoinQuoted(names) ==
  IF names = <<>> THEN ""
  ELSE "'" \o Head(names) \o "'" \o
       (IF Len(names) > 1 THEN ", " ELSE "") \o JoinQuoted(Tail(names))

\* str(list(problems.keys())): the keys in insertion order, which is the order of EXPECTED
KeysText(problems) == "[" \o JoinQuoted(KeysOf(EXPECTED, problems)) \o "]"

AttemptMessageZeroBased(model, idx) ==
  "Separating with " \o model \o " (attempt " \o ToString(idx - 1) \o ")"
\* f"Separating with {model} (attempt {idx})", idx from enumerate(..., start=1)
AttemptMessage(model, idx) ==
  "Separating with " \o model \o " (attempt " \o ToString(idx) \o ")"
RetryMessage(model, problems) ==
  "Fallback: " \o model \o " produced weak stems (" \o KeysText(problems) \o "); trying next model"

AllModelsFailedEmpty == [ok |-> FALSE, problems |-> EmptyMap]
AllModelsFailed == [ok |-> FALSE, problems |-> [_ |-> "all_models_failed"]]

(***************************************************************************)
(* Progress helpers of ContentBase and of the channel processors, as       *)
(* functions from the record get_progress returned to the record they      *)
(* pass to set_progress.                                                   *)
(***************************************************************************)
MetaOf(cur) == IF "meta" \in DOMAIN cur THEN cur.meta ELSE EmptyMap
MetaGet(meta, k, default) == IF k \in DOMAIN meta THEN meta[k] ELSE default
PercentOf(cur) == IF "percent" \in DOMAIN cur THEN cur.percent ELSE 0

Min(a, b) == IF a < b THEN a ELSE b
RoundDiv(num, den) == (2 * num + den) \div (2 * den)

\* ContentBase.update_progress with step_percent = None
UpdateProgressRec(cur, message, metadata) ==
  LET meta == MetaOf(cur)
      enriched == Merge([stem |-> MetaGet(meta, "stem", "None"),
                         channel |-> MetaGet(meta, "channel", "None"),
                         title |-> MetaGet(meta, "title", "None")], metadata)
  IN  [message |-> message, percent |-> PercentOf(cur), meta |-> enriched]

\* incremental_progress of a channel processor; step10 is step_index * 10
IncrementalProgressRec(cur, message, step10, total_steps, metadata) ==
  LET meta == MetaOf(cur)
      completed == MetaGet(meta, "completed", 0)
      total == MetaGet(meta, "total", 1)
      exact == RoundDiv(1000 * (10 * completed * total_steps + step10), total * total_steps)
  IN  [message |-> message, percent |-> Min(Pct(100), exact), meta |-> Merge(meta, metadata)]

\* ContentBase.mark_step_complete
MarkStepCompleteRec(cur, message, extra_meta) ==
  LET meta == MetaOf(cur)
      completed == MetaGet(meta, "completed", 0) + 1
      total == MetaGet(meta, "total", 1)
      enriched == Merge([completed |-> completed, total |-> total,
                         stem |-> MetaGet(meta, "stem", "None"),
                         channel |-> MetaGet(meta, "channel", "None"),
                         title |-> MetaGet(meta, "title", "None")], extra_meta)
  IN  [message |-> message, percent |-> Pct((completed * 100) \div total), meta |-> enriched]

\* ContentBase.build_meta: the track record carries no "id", so track_id is None
BuildMeta(stem_type, channel, title) ==
  [track_id |-> "None", stem |-> stem_type, channel |-> channel, title |-> title]

\* One progress call of a processor: "inc" (incremental_progress,
\* progress_with_meta), "upd" (update_progress, fail_progress_with_meta) or
\* "mark" (mark_step_complete, mark_complete_with_meta).
ApplyCall(cur, c) ==
  CASE c.op = "inc" -> IncrementalProgressRec(cur, c.msg, c.step10, c.steps, c.meta)
    [] c.op = "upd" -> UpdateProgressRec(cur, c.msg, c.meta)
    [] OTHER -> MarkStepCompleteRec(cur, c.msg, c.meta)

\* the records a sequence of progress calls writes, each call reading what
\* the one before it wrote
Only(S) == CHOOSE x \in S : TRUE

RECURSIVE ScriptWrites(_, _)
ScriptWrites(cur, calls) ==
  IF calls = <<>> THEN <<>>
  ELSE Only({<<w>> \o ScriptWrites(w, rest) :
               w \in {ApplyCall(cur, Head(calls))}, rest \in {Tail(calls)}})

Call(op, msg, step10, steps, meta) ==
  [op |-> op, msg |-> msg, step10 |-> step10, steps |-> steps, meta |-> meta]

\* Content_download_vocal.download and Content_download_drum.download with
\* yt off: the progress calls made when the processor runs to the end
\* ("ok"), when the stem file never shows up ("early"), and up to the point
\* where copying or tagging the stem raises ("raise").
ProcessorCalls(key, outcome, title) ==
  LET label == CHANNEL_NAME_MAP[key]
      vocal == key = "son_got_acappellas"
      stem == IF vocal THEN "acapella" ELSE "drums"
      bm == BuildMeta(stem, label, title)
      head == << Call("inc", "Preparing stem", 10, 7, bm),
                 Call("inc", "Downloading thumbnail", IF vocal THEN 30 ELSE 20, 7, bm) >>
  IN  CASE outcome = "ok" ->
             head \o << Call("inc", "Tagging", IF vocal THEN 40 ELSE 30, 7, bm),
                        Call("inc", "Rendering video", IF vocal THEN 50 ELSE 40, 7, bm),
                        Call("inc", "Uploading to EC2 (if needed)", 60, 7, bm),
                        Call("upd", "YouTube upload skipped", 0, 0, [yt_enabled |-> FALSE]),
                        Call("mark", "processing complete", 0, 0, bm) >>
        [] outcome = "early" ->
             head \o << Call("upd", "stem not found after waiting.", 0, 0, bm) >>
        [] OTHER -> head

VARIABLES
  store,      \* _progress_store: session id -> JSON text
  lock,       \* _progress_lock: NoHolder or the thread holding it
  wpc,        \* store thread -> "idle" | "wait" | "crit" | "exit"
  wop,        \* store thread -> the call it is making
  wres,       \* store thread -> what its get_progress returns
  started,    \* store calls started so far
  written,    \* session id -> record of the latest completed set, NoRecord if none
  everSet,    \* session ids some completed set_progress wrote
  passed,     \* session id -> records passed to set_progress calls so far
  batch,      \* the arguments of process_all_tracks
  mainpc,     \* tracks the caller's loop has submitted; n + 2 once it has returned, 0 if it raised
  sem,        \* permits left in the semaphore
  pc,         \* track -> where its worker thread stands
  args,       \* track -> merged_args of its dispatch
  frame,      \* track -> local variables of its dispatch
  fs,         \* track -> model -> the directory separated/<model>/<uid>, or NoDir
  faillog,    \* track -> the entries of fail_logs/<session>.jsonl
  logOk,      \* whether fail_logs can be written
  world,      \* track -> the outcomes its collaborators may produce
  trace,      \* track -> what its dispatch did so far, in order
  vdir,       \* the stems directory handed to validate_stems
  vres        \* the outcome of the validate_stems call, NotCalled before it

storeVars == <<lock, wpc, wop, wres, started, written, everSet, passed>>
dispatchVars == <<batch, mainpc, sem, pc, args, frame, fs, faillog, logOk, world, trace>>
validatorVars == <<vdir, vres>>
vars == <<store, storeVars, dispatchVars, validatorVars>>

(***************************************************************************)
(* Bounds of the dispatch model, and the state in which no batch runs.     *)
(***************************************************************************)
MaxTracks == 2       \* tracks in one batch
MaxChannels == 2     \* length of selected_channels
MaxConcurrent == 2   \* largest max_concurrent tried

Tracks == 1..MaxTracks
NoBatch == [n |-> 0, channels |-> <<>>, max_concurrent |-> 1,
            shared |-> EmptyMap, per_track |-> [t \in Tracks |-> EmptyMap],
            preloaded |-> FALSE]
NoProc == [launched |-> FALSE, returncode |-> 0]
None == "None"
NoReturn == [model |-> None, dir |-> None, validation |-> [ok |-> FALSE, problems |-> EmptyMap]]
\* self.track_info of a ContentBase instance: nothing, or a record
NoInfo == [held |-> FALSE]
HeldInfo(r) == [held |-> TRUE, record |-> r]
InitFrame == [mp3_for_split |-> None, cached_model |-> None, cached_dir |-> None,
              idx |-> 0, proc |-> NoProc, ret |-> NoReturn, ch |-> 0,
              base_info |-> NoInfo]
NoWorld == [ctor |-> {}, info |-> {}, fetch |-> {}, prep |-> {}, tool |-> {}, chan |-> {}]

\* validate_stems has not been called on its own
ValidatorIdle == vdir = [n \in ExpectedNames |-> NoFile] /\ vres = NotCalled

IdleDispatch ==
  /\ batch = NoBatch
  /\ mainpc = 1
  /\ sem = 0
  /\ pc = [t \in Tracks |-> "finished"]
  /\ args = [t \in Tracks |-> EmptyMap]
  /\ frame = [t \in Tracks |-> InitFrame]
  /\ fs = [t \in Tracks |-> [m \in Models |-> NoDir]]
  /\ faillog = [t \in Tracks |-> <<>>]
  /\ logOk = TRUE
  /\ world = [t \in Tracks |-> NoWorld]
  /\ trace = [t \in Tracks |-> <<>>]

Workers == 1..NumWorkers
StoreSessions == {"s" \o ToString(w) : w \in Workers}
WorkerRecord(w) ==
  IF w % 2 = 1
  THEN [message |-> "from worker " \o ToString(w), percent |-> Pct(w)]
  ELSE [message |-> "from worker " \o ToString(w), percent |-> Pct(w),
        meta |-> [completed |-> w, total |-> NumWorkers]]
NoOp == [kind |-> "none", sid |-> "", data |-> NoRecord]

InitStore ==
  /\ store = [s \in {} |-> <<>>]
  /\ lock = NoHolder
  /\ wpc = [w \in Workers |-> "idle"]
  /\ wop = [w \in Workers |-> NoOp]
  /\ wres = [w \in Workers |-> NoRecord]
  /\ started = 0
  /\ written = [s \in StoreSessions |-> NoRecord]
  /\ everSet = {}
  /\ passed = [s \in StoreSessions |-> {}]
  /\ IdleDispatch
  /\ ValidatorIdle

\* A thread calls set_progress, get_progress or delete_progress (reset_progress).
StoreCall(w) ==
  /\ wpc[w] = "idle"
  /\ started < MaxOps
  /\ \E kind \in {"set", "get", "delete"}, sid \in StoreSessions :
       /\ wop' = [wop EXCEPT ![w] =
                    [kind |-> kind, sid |-> sid,
                     data |-> IF kind = "set" THEN WorkerRecord(w) ELSE NoRecord]]
       /\ passed' = IF kind = "set"
                    THEN [passed EXCEPT ![sid] = @ \cup {WorkerRecord(w)}]
                    ELSE passed
  /\ wpc' = [wpc EXCEPT ![w] = "wait"]
  /\ wres' = [wres EXCEPT ![w] = NoRecord]
  /\ started' = started + 1
  /\ UNCHANGED <<store, lock, written, everSet>>
  /\ UNCHANGED <<dispatchVars, validatorVars>>

\* with _progress_lock: entry
StoreAcquire(w) ==
  /\ wpc[w] = "wait"
  /\ LockFree(lock)
  /\ lock' = w
  /\ wpc' = [wpc EXCEPT ![w] = "crit"]
  /\ UNCHANGED <<store, wop, wres, started, written, everSet, passed>>
  /\ UNCHANGED <<dispatchVars, validatorVars>>

\* the body of the with block
StoreBody(w) ==
  /\ wpc[w] = "crit"
  /\ wpc' = [wpc EXCEPT ![w] = "exit"]
  /\ LET op == wop[w] IN
       CASE op.kind = "set" ->
              /\ store' = SetProgress(store, op.sid, op.data)
              /\ written' = [written EXCEPT ![op.sid] = op.data]
              /\ everSet' = everSet \cup {op.sid}
              /\ wres' = wres
         [] op.kind = "get" ->
              /\ wres' = [wres EXCEPT ![w] = GetProgress(store, op.sid)]
              /\ UNCHANGED <<store, written, everSet>>
         [] OTHER ->
              /\ store' = DeleteProgress(store, op.sid)
              /\ written' = [written EXCEPT ![op.sid] = NoRecord]
              /\ UNCHANGED <<wres, everSet>>
  /\ UNCHANGED <<lock, wop, started, passed>>
  /\ UNCHANGED <<dispatchVars, validatorVars>>

\* with _progress_lock: exit, and the return to the caller
StoreRelease(w) ==
  /\ wpc[w] = "exit"
  /\ lock' = NoHolder
  /\ wpc' = [wpc EXCEPT ![w] = "idle"]
  /\ UNCHANGED <<store, wop, wres, started, written, everSet, passed>>
  /\ UNCHANGED <<dispatchVars, validatorVars>>

\* what a caller does to the record get_progress handed it, as the dispatcher
\* does before a write: progress["message"] = ...
Mutated(r) == Merge(r, [message |-> "changed by the caller"])

\* the caller changes the record it got; json.loads built that object for
\* this call alone, so the store's text is not touched
StoreMutate(w) ==
  /\ wpc[w] = "idle"
  /\ wop[w].kind = "get"
  /\ wres[w] # NoRecord
  /\ wres' = [wres EXCEPT ![w] = Mutated(@)]
  /\ wop' = [wop EXCEPT ![w].kind = "mutated"]
  /\ UNCHANGED <<store, lock, wpc, started, written, everSet, passed>>
  /\ UNCHANGED <<dispatchVars, validatorVars>>

NextStore ==
  \E w \in Workers :
    StoreCall(w) \/ StoreAcquire(w) \/ StoreBody(w) \/ StoreRelease(w) \/ StoreMutate(w)

SpecStore == InitStore /\ [][NextStore]_vars

(***************************************************************************)
(* The batch runner and the track dispatcher (dispatch_download.py).       *)
(***************************************************************************)
BatchSession == "batch"
TrackId(t) == "trk" \o ToString(t)
SessionShared(t) == BatchSession
\* full_session_id = f"{session_id}__{track_id}"
SessionOf(t) == BatchSession \o "__" \o TrackId(t)
Uid(t) == "Uploader - vid" \o ToString(t)
Mp3Path(t) == "MP3/" \o Uid(t) \o ".mp3"
TrackRecord(t) ==
  [name |-> "Title " \o ToString(t), artist |-> "Artist", tempo |-> 120, key |-> "C"]

DEFAULT_MAX_CONCURRENT == 2

\* what a dispatch did: e is the kind of event, a and n say which
Event(e, a, n) == [e |-> e, a |-> a, n |-> n]
P(rec) == [k |-> "progress", v |-> rec]
L(entry) == [k |-> "log", v |-> entry]
E(ev) == [k |-> "event", v |-> ev]
Progresses(recs) == [i \in 1..Len(recs) |-> P(recs[i])]

\* utils/errors.py
LogEntry(track_id, reason, details) ==
  [ts |-> "now", track_id |-> track_id, reason |-> reason, details |-> details]
LogFailureDrop(log, entry) == log
LogFailure(log, entry) == Append(log, entry)

\* The calls of one step, in the order of the code: set_progress, log_failure
\* and the collaborator calls the trace records.  log_failure raises when
\* fail_logs cannot be written, and what follows it in the step is skipped.
RECURSIVE RunEffects(_, _, _)
RunEffects(acc, t, effs) ==
  IF effs = <<>> \/ acc.raised THEN acc
  ELSE LET e == Head(effs)
           nxt ==
             CASE e.k = "progress" ->
                    [acc EXCEPT !.store = SetProgress(@, SessionOf(t), e.v),
                                !.trace = Append(@, Event("progress", e.v.message, e.v.percent))]
               [] e.k = "log" ->
                    IF logOk
                    THEN [acc EXCEPT !.log = LogFailure(@, e.v),
                                     !.trace = Append(@, Event("log", e.v.reason, 0))]
                    ELSE [acc EXCEPT !.raised = TRUE,
                                     !.trace = Append(@, Event("log_raised", e.v.reason, 0))]
               [] OTHER -> [acc EXCEPT !.trace = Append(@, e.v)]
       IN  Only({RunEffects(a, t, rest) : a \in {nxt}, rest \in {Tail(effs)}})

Step(t, effs, nextpc, raisedpc) ==
  \E es \in {effs} :
  \E r \in {RunEffects([store |-> store, log |-> faillog[t], trace |-> trace[t],
                        raised |-> FALSE], t, es)} :
      /\ store' = r.store
      /\ faillog' = [faillog EXCEPT ![t] = r.log]
      /\ trace' = [trace EXCEPT ![t] = r.trace]
      /\ pc' = [pc EXCEPT ![t] = IF r.raised THEN raisedpc ELSE nextpc]

Current(t) == GetProgress(store, SessionOf(t))

\* executor.submit(run_with_semaphore, track_id, full_session_id), in list order
Submit(t) ==
  /\ mainpc = t
  /\ t <= batch.n
  /\ pc[t] = "unsubmitted"
  /\ pc' = [pc EXCEPT ![t] = "queued"]
  /\ mainpc' = mainpc + 1
  /\ UNCHANGED <<validatorVars, store, storeVars, batch, sem, args, frame, fs, faillog, logOk, world, trace>>

\* the futures whose call ended by an exception: log_failure raised in the
\* except branch of run_with_semaphore
FutureExceptions ==
  {t \in 1..batch.n :
     \E i \in 1..Len(trace[t]) :
       trace[t][i] = Event("log_raised", "dispatch_uncaught", 0)}
Reraised(excs) == IF excs # {} THEN 0 ELSE batch.n + 2
\* executor.submit's futures are dropped: nobody calls result() on them
Discarded(excs) == batch.n + 2

\* the executor's with block ends when every submitted call has finished
MainReturn ==
  /\ mainpc = batch.n + 1
  /\ \A t \in 1..batch.n : pc[t] = "finished"
  /\ mainpc' = Discarded(FutureExceptions)
  /\ UNCHANGED <<validatorVars, store, storeVars, batch, sem, pc, args, frame, fs, faillog, logOk, world, trace>>

SemaphoreFreeAlways(s) == TRUE
SemaphoreFree(s) == s > 0

MergedArgsShared(t) == batch.shared
MergedArgs(t) ==
  IF t \in DOMAIN batch.per_track
  THEN Merge(batch.shared, batch.per_track[t])
  ELSE batch.shared

\* with semaphore: entry; merged_args
Acquire(t) ==
  /\ pc[t] = "queued"
  /\ SemaphoreFree(sem)
  /\ sem' = sem - 1
  /\ args' = [args EXCEPT ![t] = MergedArgs(t)]
  /\ pc' = [pc EXCEPT ![t] = "start"]
  /\ UNCHANGED <<validatorVars, store, storeVars, batch, mainpc, frame, fs, faillog, logOk, world, trace>>

\* ContentBase.get_track_info without a held record: the provider's answer,
\* and None when the provider returned nothing usable or raised (the except
\* clause of get_track_info)
ProviderCode(i) == CASE i = "ok" -> 1 [] i = "null" -> 0 [] OTHER -> 2
LookupFailed(held, i) == ~held /\ i \in {"null", "error"}

ProceedAfterInfoFailure(t) == "download"
\* if not track_info: ...; return
AfterInfoFailure(t) == "returning"

\* ContentBase.__init__: self.track_info = track_info or args.get("track_info")
CtorTrackInfo(a) ==
  IF "track_info" \in DOMAIN a THEN HeldInfo(a.track_info) ELSE NoInfo

GetTrackInfoFresh(self, t, i) ==
  IF i = "ok"
  THEN [value |-> HeldInfo(TrackRecord(t)), self |-> HeldInfo(TrackRecord(t)), asked |-> TRUE]
  ELSE [value |-> self, self |-> self, asked |-> TRUE]
\* ContentBase.get_track_info on an instance whose track_info is self, the
\* provider answering i: the value returned, the instance's track_info
\* afterwards, and whether the provider was asked
GetTrackInfo(self, t, i) ==
  IF self.held THEN [value |-> self, self |-> self, asked |-> FALSE]
  ELSE IF i = "ok"
  THEN [value |-> HeldInfo(TrackRecord(t)), self |-> HeldInfo(TrackRecord(t)), asked |-> TRUE]
  ELSE [value |-> NoInfo, self |-> self, asked |-> TRUE]

\* dispatch_stem_processing up to "Download audio": ContentBase(...),
\* get_track_info, and the first update_progress
TrackInfo(t) ==
  /\ pc[t] = "start"
  /\ \E c \in world[t].ctor, i \in world[t].info :
     \E got \in {GetTrackInfo(CtorTrackInfo(args[t]), t, i)} :
       LET held == CtorTrackInfo(args[t]).held
           asked == IF got.asked
                    THEN <<E(Event("provider", TrackId(t), ProviderCode(i)))>>
                    ELSE <<>>
       IN  IF c = "raise"
           THEN /\ Step(t, <<E(Event("raise", "ContentBase", 0))>>, "raised", "raised")
                /\ UNCHANGED <<args, frame>>
           ELSE IF LookupFailed(held, i)
           THEN /\ Step(t, asked \o
                           <<P([message |-> "Failed to get track info", percent |-> 0]),
                             L(LogEntry(TrackId(t), "track_info",
                                        [message |-> "Failed to get track info"]))>>,
                        AfterInfoFailure(t), "raised")
                /\ frame' = [frame EXCEPT ![t].base_info = got.self]
                /\ UNCHANGED args
           ELSE /\ Step(t, asked \o
                           <<P(UpdateProgressRec(Current(t), "Downloading track audio",
                                                 [track_id |-> TrackId(t)]))>>,
                        "download", "raised")
                /\ frame' = [frame EXCEPT ![t].base_info = got.self]
                /\ args' = [args EXCEPT ![t] = Merge(@, [track_info |-> got.value.record])]
  /\ UNCHANGED <<validatorVars, storeVars, batch, mainpc, sem, fs, logOk, world>>

ProceedAfterDownloadFailure(t) == "prepare"
\* if not uid or not os.path.exists(mp3_path): ...; return
AfterDownloadFailure(t) == "returning"

\* base.download_audio and the check of its result
DownloadAudio(t) ==
  /\ pc[t] = "download"
  /\ \E r \in world[t].fetch :
       LET uid == IF r = "none" THEN None ELSE Uid(t)
           path == IF r = "none" THEN None ELSE Mp3Path(t)
       IN  IF r = "ok"
           THEN /\ Step(t, <<E(Event("fetch", "ok", 0))>>, "prepare", "raised")
                /\ args' = [args EXCEPT ![t] =
                              Merge(@, [universal_id |-> uid, mp3_path |-> path])]
           ELSE /\ Step(t, <<E(Event("fetch", r, 0)),
                             P([message |-> "Audio download failed", percent |-> 0]),
                             L(LogEntry(TrackId(t), "download_audio",
                                        [uid |-> uid, mp3_path |-> path]))>>,
                        AfterDownloadFailure(t), "raised")
                /\ UNCHANGED args
  /\ UNCHANGED <<validatorVars, storeVars, batch, mainpc, sem, frame, fs, logOk, world>>

\* prepare_input_for_demucs: ffmpeg run with check=True inside try/except;
\* True when the prepared file exists and is larger than PREP_MIN_BYTES
PREP_MIN_BYTES == 150000
PreparedFile(o) ==
  CASE o = "ok" -> [size |-> 4000000]
    [] o = "edge" -> [size |-> PREP_MIN_BYTES]
    [] OTHER -> NoFile
PrepareInputForDemucs(o) ==
  IF o = "raise" THEN FALSE
  ELSE PreparedFile(o) # NoFile /\ PreparedFile(o).size > PREP_MIN_BYTES

SplitInputPrepared(prepared, mp3_path, prep_path) == prep_path
\* mp3_for_split = prep_path if the preparation returned True, else mp3_path
SplitInput(prepared, mp3_path, prep_path) == IF prepared THEN prep_path ELSE mp3_path

PrepareInput(t) ==
  /\ pc[t] = "prepare"
  /\ \E o \in world[t].prep :
       /\ frame' = [frame EXCEPT ![t].mp3_for_split =
                      SplitInput(PrepareInputForDemucs(o), args[t].mp3_path,
                                 PreparedCopyPath(args[t].universal_id))]
       /\ Step(t, <<E(Event("prep", o, 0))>>, "cache", "raised")
  /\ UNCHANGED <<validatorVars, storeVars, batch, mainpc, sem, args, fs, logOk, world>>

\* the cache loop: the first model, in list order, whose directory exists and validates
CacheHitLast(dirs, i) ==
  LET valid == {j \in i..Len(FALLBACK_MODELS) :
                  dirs[FALLBACK_MODELS[j]] # NoDir /\ ValidateStems(dirs[FALLBACK_MODELS[j]]).ok}
  IN  IF valid = {} THEN 0 ELSE CHOOSE j \in valid : \A k \in valid : k <= j

CacheHitAnyDir(dirs, i) ==
  IF \E j \in i..Len(FALLBACK_MODELS) : dirs[FALLBACK_MODELS[j]] # NoDir
  THEN CHOOSE j \in i..Len(FALLBACK_MODELS) :
         /\ dirs[FALLBACK_MODELS[j]] # NoDir
         /\ \A k \in i..(j - 1) : dirs[FALLBACK_MODELS[k]] = NoDir
  ELSE 0

RECURSIVE CacheHit(_, _)
CacheHit(dirs, i) ==
  IF i > Len(FALLBACK_MODELS) THEN 0
  ELSE IF dirs[FALLBACK_MODELS[i]] # NoDir /\ ValidateStems(dirs[FALLBACK_MODELS[i]]).ok
       THEN i ELSE CacheHit(dirs, i + 1)

ValidateEvent(dir, validation) == E(Event("validate", dir, IF validation.ok THEN 1 ELSE 0))

CacheEvents(dirs, uid, hit) ==
  LET last == IF hit = 0 THEN Len(FALLBACK_MODELS) ELSE hit
      seen == SelectSeq([i \in 1..last |-> i], LAMBDA i : dirs[FALLBACK_MODELS[i]] # NoDir)
  IN  [j \in 1..Len(seen) |->
         ValidateEvent(ModelOutputDir(FALLBACK_MODELS[seen[j]], uid),
                       ValidateStems(dirs[FALLBACK_MODELS[seen[j]]]))]

CacheCheck(t) ==
  /\ pc[t] = "cache"
  /\ LET uid == args[t].universal_id
         hit == CacheHit(fs[t], 1)
         events == CacheEvents(fs[t], uid, hit)
     IN  IF hit # 0
         THEN /\ args' = [args EXCEPT ![t] =
                            Merge(@, [stem_base_path |-> ModelOutputDir(FALLBACK_MODELS[hit], uid)])]
              /\ Step(t, events \o
                         <<P([message |-> "Using cached stems (" \o FALLBACK_MODELS[hit] \o ")",
                              percent |-> Pct(45)])>>,
                      "fanout", "raised")
              /\ frame' = [frame EXCEPT ![t].cached_model = FALLBACK_MODELS[hit],
                                        ![t].cached_dir = ModelOutputDir(FALLBACK_MODELS[hit], uid)]
         ELSE /\ Step(t, events \o <<P([message |-> "Separating stems", percent |-> Pct(12)])>>,
                      "announce", "raised")
              /\ frame' = [frame EXCEPT ![t].idx = 1]
              /\ UNCHANGED args
  /\ UNCHANGED <<validatorVars, storeVars, batch, mainpc, sem, fs, logOk, world>>

(***************************************************************************)
(* The separation fallback engine: run_demucs_with_fallbacks, one          *)
(* iteration of its loop in three steps.                                   *)
(***************************************************************************)
CurrentModel(t) == FALLBACK_MODELS[frame[t].idx]

\* set_progress naming the model and the attempt number
EngineAnnounce(t) ==
  /\ pc[t] = "announce"
  /\ Step(t, <<P([message |-> AttemptMessage(CurrentModel(t), frame[t].idx),
                  percent |-> Pct(12)])>>, "run", "raised")
  /\ UNCHANGED <<validatorVars, storeVars, batch, mainpc, sem, args, frame, fs, logOk, world>>

\* what one run of the separation tool leaves behind
ToolProc(o) ==
  CASE o = "nolaunch" -> NoProc
    [] o = "exit1" -> [launched |-> TRUE, returncode |-> 1]
    [] OTHER -> [launched |-> TRUE, returncode |-> 0]
ToolDir(o, before) ==
  CASE o = "exit0_weak" -> DirWeak
    [] o = "exit0_good" -> DirGood
    [] OTHER -> before
ToolCode(o) ==
  CASE o = "nolaunch" -> 0
    [] o = "exit1" -> 1
    [] OTHER -> 2

\* run_demucs_with_model
EngineRunTool(t) ==
  /\ pc[t] = "run"
  /\ \E o \in world[t].tool :
       /\ frame' = [frame EXCEPT ![t].proc = ToolProc(o)]
       /\ fs' = [fs EXCEPT ![t][CurrentModel(t)] = ToolDir(o, @)]
       /\ Step(t, <<E(Event("split", frame[t].mp3_for_split, 0)),
                    E(Event("tool", CurrentModel(t), ToolCode(o)))>>, "check", "raised")
  /\ UNCHANGED <<validatorVars, storeVars, batch, mainpc, sem, args, logOk, world>>

NextModelRetry(f) == f
\* continue: the next model of the list, or the end of the loop
NextModel(f) ==
  IF f.idx < Len(FALLBACK_MODELS)
  THEN [f EXCEPT !.idx = @ + 1]
  ELSE [f EXCEPT !.ret = [model |-> None, dir |-> None, validation |-> AllModelsFailed]]
NextModelPc(f) == IF f.idx < Len(FALLBACK_MODELS) THEN "announce" ELSE "engine_return"

AcceptsAlways(validation) == TRUE
Accepts(validation) == validation.ok

SkipsNever(proc, dir) == FALSE
SkipsOnlyNoDir(proc, dir) == dir = NoDir
\* if not proc: continue / if proc.returncode != 0 or not os.path.exists(out_dir): continue
Skips(proc, dir) == ~proc.launched \/ proc.returncode # 0 \/ dir = NoDir

\* the checks after the run: not launched, failed, no directory, or validate
EngineCheck(t) ==
  /\ pc[t] = "check"
  /\ LET model == CurrentModel(t)
         out_dir == ModelOutputDir(model, args[t].universal_id)
         dir == fs[t][model]
     IN  IF Skips(frame[t].proc, dir)
         THEN /\ frame' = [frame EXCEPT ![t] = NextModel(@)]
              /\ Step(t, <<>>, NextModelPc(frame[t]), "raised")
         ELSE LET validation == ValidateStems(dir) IN
              IF Accepts(validation)
              THEN /\ frame' = [frame EXCEPT ![t].ret =
                                  [model |-> model, dir |-> out_dir, validation |-> validation]]
                   /\ Step(t, <<ValidateEvent(out_dir, validation)>>, "engine_return", "raised")
              ELSE /\ frame' = [frame EXCEPT ![t] = NextModel(@)]
                   /\ Step(t, <<ValidateEvent(out_dir, validation),
                                P([message |-> RetryMessage(model, validation.problems),
                                   percent |-> Pct(20)])>>,
                           NextModelPc(frame[t]), "raised")
  /\ UNCHANGED <<validatorVars, storeVars, batch, mainpc, sem, args, fs, logOk, world>>

ProceedAfterSeparationFailure(t) == "fanout"
\* if not model_used: ...; return
AfterSeparationFailure(t) == "returning"

\* back in dispatch_stem_processing: the engine's result
AfterEngine(t) ==
  /\ pc[t] = "engine_return"
  /\ LET ret == frame[t].ret IN
       IF ret.model = None
       THEN /\ Step(t, <<P([message |-> "Stem separation failed on all models", percent |-> 0]),
                         L(LogEntry(TrackId(t), "separation_failed",
                                    [problems |-> ret.validation.problems]))>>,
                    AfterSeparationFailure(t), "raised")
            /\ UNCHANGED args
       ELSE /\ args' = [args EXCEPT ![t] = Merge(@, [stem_base_path |-> ret.dir])]
            /\ Step(t, <<P([message |-> "Separation complete with " \o ret.model,
                            percent |-> Pct(45)])>>, "fanout", "raised")
  /\ UNCHANGED <<validatorVars, storeVars, batch, mainpc, sem, frame, fs, logOk, world>>

(***************************************************************************)
(* Channel fanout and the end of the dispatch.                             *)
(***************************************************************************)
\* "Progress metas": completed 0, total len(selected_channels), percent 46
FanoutStart(t) ==
  /\ pc[t] = "fanout"
  /\ frame' = [frame EXCEPT ![t].ch = 1]
  /\ Step(t, <<P(Merge(Current(t),
                       [message |-> "Processing channels",
                        meta |-> [completed |-> 0, total |-> Len(batch.channels)],
                        percent |-> Pct(46)]))>>, "channel", "raised")
  /\ UNCHANGED <<validatorVars, storeVars, batch, mainpc, sem, args, fs, logOk, world>>

SkipChannel(ch) == ch + 2
\* for channel_key in selected_channels: the loop takes the next key
NextChannel(ch) == ch + 1
ChannelKey(t) == batch.channels[frame[t].ch]
KnownAlways(key) == TRUE
Known(key) == key \in DOMAIN CHANNEL_MODULE_MAP

SkipUnknownSilently(t, key) == <<>>
\* if channel_key not in CHANNEL_MODULE_MAP: log_failure(...); continue
SkipUnknown(t, key) ==
  <<L(LogEntry(TrackId(t), "unknown_channel", [channel_key |-> key]))>>

\* the head of one iteration: an unknown key is logged and skipped, a known
\* one is announced
ChannelBegin(t) ==
  /\ pc[t] = "channel"
  /\ frame[t].ch <= Len(batch.channels)
  /\ LET key == ChannelKey(t) IN
       IF ~Known(key)
       THEN /\ Step(t, SkipUnknown(t, key), "channel", "raised")
            /\ frame' = [frame EXCEPT ![t].ch = NextChannel(@)]
       ELSE /\ Step(t, <<P(Merge(Current(t),
                                 [message |-> "Uploading " \o Upper(key),
                                  meta |-> Merge(MetaOf(Current(t)), [channel |-> key])]))>>,
                    "process", "raised")
            /\ UNCHANGED frame
  /\ UNCHANGED <<validatorVars, storeVars, batch, mainpc, sem, args, fs, logOk, world>>

\* import the module, build the processor, processor.download(track_id)
ChannelProcess(t) ==
  /\ pc[t] = "process"
  /\ \E o \in world[t].chan :
     \E writes \in {ScriptWrites(Current(t),
                                  ProcessorCalls(ChannelKey(t), o, args[t].track_info.name))} :
       LET key == ChannelKey(t)
       IN  Step(t, <<E(Event("invoke", key, 0))>> \o Progresses(writes) \o
                   (IF o = "raise" THEN <<E(Event("raised", key, 0))>> ELSE <<>>),
                IF o = "raise" THEN "chan_failed" ELSE "chan_done", "raised")
  /\ UNCHANGED <<validatorVars, storeVars, batch, mainpc, sem, args, frame, fs, logOk, world>>

DispatcherPercent(completed, total) == Pct(46 + (completed * 54) \div total)

\* "Step done"
ChannelDone(t) ==
  /\ pc[t] = "chan_done"
  /\ LET key == ChannelKey(t)
         cur == Current(t)
         meta == MetaOf(cur)
         completed == MetaGet(meta, "completed", 0) + 1
         total == MetaGet(meta, "total", 1)
     IN  Step(t, <<P(Merge(cur,
                           [meta |-> Merge(meta, [completed |-> completed, channel |-> key]),
                            percent |-> DispatcherPercent(completed, total),
                            message |-> Upper(key) \o " done"]))>>, "channel", "raised")
  /\ frame' = [frame EXCEPT ![t].ch = NextChannel(@)]
  /\ UNCHANGED <<validatorVars, storeVars, batch, mainpc, sem, args, fs, logOk, world>>

AbortAfterChannelFailure(t) == "returning"
\* continue: the loop goes on with the next key
AfterChannelFailure(t) == "channel"

\* except Exception: log, mark the channel as failed, continue
ChannelFailed(t) ==
  /\ pc[t] = "chan_failed"
  /\ LET key == ChannelKey(t) IN
       Step(t, <<L(LogEntry(TrackId(t), "channel_processing", [channel_key |-> key])),
                 P(Merge(Current(t),
                         [message |-> "Error processing " \o Upper(key) \o " - continuing"]))>>,
            AfterChannelFailure(t), "raised")
  /\ frame' = [frame EXCEPT ![t].ch = NextChannel(@)]
  /\ UNCHANGED <<validatorVars, storeVars, batch, mainpc, sem, args, fs, logOk, world>>

FinalRecordKeep(final) == Merge(final, [message |-> "All processing complete"])
\* final["message"] = ...; final["percent"] = 100
FinalRecord(final) ==
  Merge(final, [message |-> "All processing complete", percent |-> Pct(100)])

\* "Finalize"
Finalize(t) ==
  /\ pc[t] = "channel"
  /\ frame[t].ch > Len(batch.channels)
  /\ Step(t, <<P(FinalRecord(Current(t)))>>, "returning", "raised")
  /\ UNCHANGED <<validatorVars, storeVars, batch, mainpc, sem, args, frame, fs, logOk, world>>

GuardEffectsNone(t) == <<>>
\* except Exception as e: log_failure(...); set_progress(...)
GuardEffects(t) ==
  <<L(LogEntry(TrackId(t), "dispatch_uncaught", [error |-> "Exception"])),
    P([message |-> "Uncaught error for " \o TrackId(t) \o " - continuing",
       percent |-> 0])>>

\* run_with_semaphore's guard: an exception left dispatch_stem_processing
Uncaught(t) ==
  /\ pc[t] = "raised"
  /\ Step(t, GuardEffects(t), "returning", "returning")
  /\ UNCHANGED <<validatorVars, storeVars, batch, mainpc, sem, args, frame, fs, logOk, world>>

PermitKept(s) == s
\* Semaphore.__exit__: release() gives the permit back
PermitReleased(s) == s + 1

\* with semaphore: exit
Release(t) ==
  /\ pc[t] = "returning"
  /\ sem' = PermitReleased(sem)
  /\ pc' = [pc EXCEPT ![t] = "finished"]
  /\ UNCHANGED <<validatorVars, store, storeVars, batch, mainpc, args, frame, fs, faillog, logOk, world, trace>>

\* the caller's thread: the submit loop and the wait at the end of the with block
Main == MainReturn \/ \E t \in Tracks : Submit(t)

\* the pool thread running run_with_semaphore for track t
Worker(t) ==
  \/ Acquire(t) \/ TrackInfo(t) \/ DownloadAudio(t) \/ PrepareInput(t)
  \/ CacheCheck(t) \/ EngineAnnounce(t) \/ EngineRunTool(t) \/ EngineCheck(t)
  \/ AfterEngine(t) \/ FanoutStart(t) \/ ChannelBegin(t) \/ ChannelProcess(t)
  \/ ChannelDone(t) \/ ChannelFailed(t) \/ Finalize(t) \/ Uncaught(t) \/ Release(t)

Next == Main \/ \E t \in Tracks : Worker(t)

(***************************************************************************)
(* Inputs: what the caller passes and what the collaborators may do.       *)
(***************************************************************************)
InputChannels == {"son_got_acappellas", "son_got_drums", "not_a_channel"}
ChannelLists == UNION {[1..n -> InputChannels] : n \in 0..MaxChannels}

\* every outcome of the separation tool, with processors that run to the end
EngineWorld ==
  [ctor |-> {"ok", "raise"}, info |-> {"ok", "null", "error"}, fetch |-> {"ok", "none", "nofile"},
   prep |-> {"ok", "edge", "nofile", "raise"},
   tool |-> {"nolaunch", "exit1", "exit0_nodir", "exit0_weak", "exit0_good"},
   chan |-> {"ok"}]
\* every outcome of a channel processor, with a tool that runs
FanoutWorld ==
  [ctor |-> {"ok"}, info |-> {"ok"}, fetch |-> {"ok"}, prep |-> {"ok"},
   tool |-> {"exit0_good"},
   chan |-> {"ok", "early", "raise"}]

\* separated/<model>/<uid> as earlier runs may have left it
CacheLayouts ==
  { [m \in Models |-> NoDir],
    [m \in Models |-> IF m = "htdemucs_6s" THEN DirGood ELSE NoDir],
    [m \in Models |-> IF m = "htdemucs_6s" THEN DirPartial
                      ELSE IF m = "htdemucs_ft" THEN DirGood ELSE DirWeak],
    [m \in Models |-> IF m = "htdemucs" THEN DirGood
                      ELSE IF m = "htdemucs_ft" THEN DirGood ELSE NoDir],
    [m \in Models |-> IF m = "htdemucs_6s" THEN DirPartial
                      ELSE IF m = "htdemucs_ft" THEN NoDir ELSE DirWeak] }

FirstCached(layout) == CacheHit(layout, 1)

\* the record tk.py's /split stores before it starts the batch
PreloadedRecord(t) ==
  [message |-> "Preparing track metadata...", percent |-> 0,
   meta |-> [track_id |-> TrackId(t), title |-> TrackRecord(t).name]]

SharedArgs == [yt |-> FALSE, genre |-> "Hip-Hop"]
PerTrackArgs(t) ==
  { [genre |-> "Other"],
    [genre |-> "Other", track_info |-> TrackRecord(t)] }

StoreThreadsIdle ==
  /\ lock = NoHolder
  /\ wpc = [w \in Workers |-> "idle"]
  /\ wop = [w \in Workers |-> NoOp]
  /\ wres = [w \in Workers |-> NoRecord]
  /\ started = 0
  /\ written = [s \in StoreSessions |-> NoRecord]
  /\ everSet = {}
  /\ passed = [s \in StoreSessions |-> {}]

NoLayout == [m \in Models |-> NoDir]
NoPerTrack == [x \in {} |-> EmptyMap]

\* The single-track runs: either the stems stage in full, before a short
\* channel list, or the channel fanout in full, after a stems stage that
\* meets no failure.
EngineSetups ==
  [world : {EngineWorld}, layout : CacheLayouts, channels : {<<>>, <<"son_got_drums">>},
   per_track : {NoPerTrack}, preloaded : {FALSE}]
FanoutSetups ==
  [world : {FanoutWorld}, layout : {l \in CacheLayouts : FirstCached(l) \in {0, 1}},
   channels : ChannelLists,
   per_track : {NoPerTrack} \cup {[x \in {1} |-> pt] : pt \in PerTrackArgs(1)},
   preloaded : BOOLEAN]

\* process_all_tracks([trk1], channels, shared, per_track_args = ...)
InitTrack(writable) ==
  /\ StoreThreadsIdle
  /\ ValidatorIdle
  /\ \E su \in EngineSetups \cup FanoutSetups :
       /\ batch = [n |-> 1, channels |-> su.channels,
                   max_concurrent |-> DEFAULT_MAX_CONCURRENT,
                   shared |-> SharedArgs, per_track |-> su.per_track,
                   preloaded |-> su.preloaded]
       /\ store = IF su.preloaded
                  THEN SetProgress([s \in {} |-> <<>>], SessionOf(1), PreloadedRecord(1))
                  ELSE [s \in {} |-> <<>>]
       /\ fs = [t \in Tracks |-> IF t = 1 THEN su.layout ELSE NoLayout]
       /\ world = [t \in Tracks |-> IF t = 1 THEN su.world ELSE NoWorld]
  /\ mainpc = 1
  /\ sem = DEFAULT_MAX_CONCURRENT
  /\ pc = [t \in Tracks |-> IF t = 1 THEN "unsubmitted" ELSE "finished"]
  /\ args = [t \in Tracks |-> EmptyMap]
  /\ frame = [t \in Tracks |-> InitFrame]
  /\ faillog = [t \in Tracks |-> <<>>]
  /\ logOk = writable
  /\ trace = [t \in Tracks |-> <<>>]

\* one track, fail_logs writable
Init == InitTrack(TRUE)

Spec == Init /\ [][Next]_vars

\* one track, with fail_logs writable or not (makedirs or open may fail)
InitLog == \E writable \in BOOLEAN : InitTrack(writable)

SpecLog == InitLog /\ [][Next]_vars

\* one track whose thread keeps running: the pool thread is never starved and
\* every call it makes (the tool, the validator, the store) returns
SpecFair == Init /\ [][Next]_vars /\ WF_vars(Main) /\ \A t \in Tracks : WF_vars(Worker(t))

\* The batch: several tracks, each with one fixed course of its collaborators.
Scenarios ==
  { [name |-> "fine", layout |-> [m \in Models |-> NoDir],
     world |-> [ctor |-> {"ok"}, info |-> {"ok"}, fetch |-> {"ok"}, prep |-> {"ok"},
                tool |-> {"exit0_good"}, chan |-> {"ok"}]],
    [name |-> "noinfo", layout |-> [m \in Models |-> NoDir],
     world |-> [ctor |-> {"ok"}, info |-> {"null"}, fetch |-> {"ok"}, prep |-> {"ok"},
                tool |-> {"exit0_good"}, chan |-> {"ok"}]],
    [name |-> "rough",
     layout |-> [m \in Models |-> IF m = "htdemucs_6s" THEN DirGood ELSE NoDir],
     world |-> [ctor |-> {"ok"}, info |-> {"ok"}, fetch |-> {"ok"}, prep |-> {"raise"},
                tool |-> {"exit1"}, chan |-> {"raise"}]],
    [name |-> "boom", layout |-> [m \in Models |-> NoDir],
     world |-> [ctor |-> {"raise"}, info |-> {"ok"}, fetch |-> {"ok"}, prep |-> {"ok"},
                tool |-> {"exit0_good"}, chan |-> {"ok"}]] }

Fine == CHOOSE sc \in Scenarios : sc.name = "fine"
\* at most one track of the batch departs from the course without failures
BatchCourses(n) ==
  {sc \in [1..n -> Scenarios] : Cardinality({t \in 1..n : sc[t] # Fine}) <= 1}

BatchChannels == <<"son_got_drums">>
\* per_track_args of the batch: the first track overrides one shared key
BatchPerTrack == [x \in {1} |-> [genre |-> "Other"]]

\* process_all_tracks(track_ids, channels, shared, max_concurrent = mc, per_track_args = ...)
InitBatch ==
  /\ StoreThreadsIdle
  /\ ValidatorIdle
  /\ \E n \in 1..MaxTracks, mc \in 1..MaxConcurrent :
       /\ batch = [n |-> n, channels |-> BatchChannels, max_concurrent |-> mc,
                   shared |-> SharedArgs, per_track |-> BatchPerTrack,
                   preloaded |-> FALSE]
       /\ sem = mc
       /\ pc = [t \in Tracks |-> IF t <= n THEN "unsubmitted" ELSE "finished"]
       /\ \E sc \in BatchCourses(n) :
            /\ fs = [t \in Tracks |-> IF t <= n THEN sc[t].layout ELSE NoLayout]
            /\ world = [t \in Tracks |-> IF t <= n THEN sc[t].world ELSE NoWorld]
  /\ store = [s \in {} |-> <<>>]
  /\ mainpc = 1
  /\ args = [t \in Tracks |-> EmptyMap]
  /\ frame = [t \in Tracks |-> InitFrame]
  /\ faillog = [t \in Tracks |-> <<>>]
  /\ logOk = TRUE
  /\ trace = [t \in Tracks |-> <<>>]

\* every thread the pool started keeps running: max_workers = len(track_ids)
SpecBatch ==
  InitBatch /\ [][Next]_vars /\ WF_vars(Main) /\ \A t \in Tracks : WF_vars(Worker(t))


(***************************************************************************)
(* validate_stems called on its own, on a directory in any state of the    *)
(* four expected files.                                                    *)
(***************************************************************************)
Validate ==
  /\ vres = NotCalled
  /\ vres' = ValidateCall(vdir)
  /\ UNCHANGED <<vdir, store, storeVars, dispatchVars>>

InitValidator ==
  /\ vdir \in [ExpectedNames -> FileStates]
  /\ vres = NotCalled
  /\ store = [s \in {} |-> <<>>]
  /\ StoreThreadsIdle
  /\ IdleDispatch

SpecValidator == InitValidator /\ [][Validate]_vars
(***************************************************************************)
(* Claims about the progress store, checked under SpecStore.               *)
(***************************************************************************)
StoreAt(st, sid) == IF sid \in DOMAIN st THEN st[sid] ELSE <<>>
Expected(sid) == IF written[sid] = NoRecord THEN DefaultProgress ELSE written[sid]

\* C8: get_progress on a session id that has no record (never written, or
\* deleted since, whether or not the delete found a record) returns exactly
\* {message: "Waiting...", percent: 0} and raises nothing.
C8_DefaultWhenAbsent ==
  \A w \in Workers :
    (wpc[w] = "exit" /\ wop[w].kind = "get" /\ written[wop[w].sid] = NoRecord)
      => wres[w] = DefaultProgress

C8_Witness ==
  \E w \in Workers :
    /\ wpc[w] = "exit" /\ wop[w].kind = "get"
    /\ wop[w].sid \in everSet /\ written[wop[w].sid] = NoRecord
    /\ wres[w] = DefaultProgress

\* C9: every session id reads back exactly the record of the latest
\* set_progress on that id (the default when there is none), whatever the
\* other threads did to other ids, and a step changes the stored text of a
\* session id only when it is the body of a set or delete on that very id.
C9_ReadBack == \A s \in StoreSessions : GetProgress(store, s) = Expected(s)

C9_Frame ==
  \A s \in StoreSessions :
    StoreAt(store', s) # StoreAt(store, s) =>
      \E w \in Workers :
        /\ wpc[w] = "crit" /\ wpc'[w] = "exit"
        /\ wop[w].sid = s /\ wop[w].kind \in {"set", "delete"}

C9_CrossSessionIndependence == [](C9_ReadBack) /\ [][C9_Frame]_vars

C9_Witness ==
  /\ \A w \in Workers : written["s" \o ToString(w)] = WorkerRecord(w)
  /\ \A w \in Workers : GetProgress(store, "s" \o ToString(w)) = WorkerRecord(w)

\* C10: at most one thread is inside a store operation at a time, and what a
\* get_progress(s) returns is the default or one record that was passed whole
\* to a single set_progress(s, .) call.
C10_Atomic ==
  /\ Cardinality({w \in Workers : wpc[w] \in {"crit", "exit"}}) <= 1
  /\ \A w \in Workers :
       (wop[w].kind = "get" /\ wres[w] # NoRecord)
         => (wres[w] = DefaultProgress \/ wres[w] \in passed[wop[w].sid])

C10_Witness ==
  \E w, v \in Workers :
    /\ w # v
    /\ wpc[w] = "exit" /\ wop[w].kind = "get" /\ wres[w] \in passed[wop[w].sid]
    /\ wpc[v] = "wait" /\ wop[v].kind = "set" /\ wop[v].sid = wop[w].sid
(***************************************************************************)
(* Properties of the fallback engine and the track dispatcher.             *)
(***************************************************************************)
ToolEvents(t) == SelectSeq(trace[t], LAMBDA ev : ev.e = "tool")
Attempted(t) == [i \in 1..Len(ToolEvents(t)) |-> ToolEvents(t)[i].a]
OutDirOf(t, m) == ModelOutputDir(m, args[t].universal_id)
Happened(t, ev) == \E i \in 1..Len(trace[t]) : trace[t][i] = ev
HappenedBefore(t, ev1, ev2) ==
  \E i, j \in 1..Len(trace[t]) : i < j /\ trace[t][i] = ev1 /\ trace[t][j] = ev2

\* the attempt with model m launched, exited with status 0, left its
\* directory and the validation of that directory passed
AttemptPassed(t, m) ==
  HappenedBefore(t, Event("tool", m, 2), Event("validate", OutDirOf(t, m), 1))
AttemptWeak(t, m) ==
  HappenedBefore(t, Event("tool", m, 2), Event("validate", OutDirOf(t, m), 0))

\* the engine was entered and its loop has ended
EngineReturned(t) == frame[t].idx > 0 /\ pc[t] \notin {"announce", "run", "check"}
ModelIndex(m) == CHOOSE i \in 1..Len(FALLBACK_MODELS) : FALLBACK_MODELS[i] = m

\* C1: the engine attempts the models in list order, attempts nothing after a
\* model that launched, exited 0, left its directory and validated, and the
\* model it returns is that first passing model.
C1_FirstPassingModelWins ==
  \A t \in Tracks :
    /\ Len(Attempted(t)) <= Len(FALLBACK_MODELS)
    /\ \A i \in 1..Len(Attempted(t)) : Attempted(t)[i] = FALLBACK_MODELS[i]
    /\ \A i \in 1..(Len(Attempted(t)) - 1) : ~AttemptPassed(t, FALLBACK_MODELS[i])
    /\ (EngineReturned(t) /\ frame[t].ret.model # None) =>
         LET k == ModelIndex(frame[t].ret.model) IN
           /\ Attempted(t) = SubSeq(FALLBACK_MODELS, 1, k)
           /\ AttemptPassed(t, FALLBACK_MODELS[k])
           /\ frame[t].ret.dir = OutDirOf(t, FALLBACK_MODELS[k])
    /\ (EngineReturned(t) /\ \E m \in Models : AttemptPassed(t, m)) =>
         frame[t].ret.model # None

\* the example of the claim: A fails validation, B passes, C is never attempted
C1_Witness ==
  \E t \in Tracks :
    /\ EngineReturned(t)
    /\ frame[t].ret.model = FALLBACK_MODELS[2]
    /\ AttemptWeak(t, FALLBACK_MODELS[1])
    /\ Attempted(t) = SubSeq(FALLBACK_MODELS, 1, 2)
    /\ pc[t] = "finished"

\* C2: when no attempt passes, the engine returns (None, None, result) with
\* result.ok false and a non-empty result.problems.
C2_AllModelsFail ==
  \A t \in Tracks :
    (EngineReturned(t) /\ \A m \in Models : ~AttemptPassed(t, m)) =>
      /\ frame[t].ret.model = None
      /\ frame[t].ret.dir = None
      /\ frame[t].ret.validation.ok = FALSE
      /\ DOMAIN frame[t].ret.validation.problems # {}

\* one model could not be launched, one exited non-zero, one left weak stems
C2_Witness ==
  \E t \in Tracks :
    /\ EngineReturned(t)
    /\ Happened(t, Event("tool", FALLBACK_MODELS[1], 0))
    /\ Happened(t, Event("tool", FALLBACK_MODELS[2], 1))
    /\ AttemptWeak(t, FALLBACK_MODELS[3])
    /\ frame[t].ret.model = None

\* the first model, in list order, whose directory exists and validates; 0 if none
FirstValid(dirs) ==
  LET valid == {i \in 1..Len(FALLBACK_MODELS) :
                  dirs[FALLBACK_MODELS[i]] # NoDir /\ ValidateStems(dirs[FALLBACK_MODELS[i]]).ok}
  IN  IF valid = {} THEN 0 ELSE CHOOSE i \in valid : \A j \in valid : i <= j

C3_Frame ==
  \A t \in Tracks :
    (pc[t] = "cache" /\ pc'[t] # "cache" /\ FirstValid(fs[t]) # 0) =>
      frame'[t].cached_dir = OutDirOf(t, FALLBACK_MODELS[FirstValid(fs[t])])
C3_Reused ==
  \A t \in Tracks :
    frame[t].cached_dir # None =>
      /\ ToolEvents(t) = <<>>
      /\ "stem_base_path" \in DOMAIN args[t]
      /\ args[t].stem_base_path = frame[t].cached_dir

\* C3: when the cache check finds a directory that exists and validates, it
\* picks the first such model in list order, the dispatch never runs the
\* separation tool, and the processors get that model's directory.
C3_CacheSkipsTool == [](C3_Reused) /\ [][C3_Frame]_vars

\* the first directory is there but invalid, the second is valid, and a
\* processor has been started on the second
C3_Witness ==
  \E t \in Tracks :
    /\ frame[t].cached_model = FALLBACK_MODELS[2]
    /\ fs[t][FALLBACK_MODELS[1]] # NoDir
    /\ Happened(t, Event("invoke", "son_got_drums", 0))
    /\ ToolEvents(t) = <<>>

\* C4: stem_base_path is only ever a directory whose validation returned ok
\* earlier in the same dispatch.
C4_OnlyValidatedDirs ==
  \A t \in Tracks :
    "stem_base_path" \in DOMAIN args[t] =>
      Happened(t, Event("validate", args[t].stem_base_path, 1))

\* a directory that was on disk and failed validation in the cache check,
\* and a processor started on the directory the engine validated
C4_Witness ==
  \E t \in Tracks :
    /\ "stem_base_path" \in DOMAIN args[t]
    /\ ToolEvents(t) # <<>>
    /\ Happened(t, Event("validate", OutDirOf(t, FALLBACK_MODELS[3]), 0))
    /\ args[t].stem_base_path # OutDirOf(t, FALLBACK_MODELS[3])
    /\ Happened(t, Event("invoke", "son_got_drums", 0))

InvokedKeys(t) ==
  LET evs == SelectSeq(trace[t], LAMBDA ev : ev.e = "invoke")
  IN  [i \in 1..Len(evs) |-> evs[i].a]
RoutedKeys == SelectSeq(batch.channels, LAMBDA k : k \in DOMAIN CHANNEL_MODULE_MAP)
FanoutOver(t) == pc[t] \in {"returning", "finished"} /\ frame[t].ch > 0
LoggedChannelFailure(t, key) ==
  \E j \in 1..Len(faillog[t]) :
    /\ faillog[t][j].reason = "channel_processing"
    /\ faillog[t][j].details.channel_key = key

\* C5: a processor that raises stops no later channel: at the end of the
\* fanout every routed key of the list has been invoked, in order, every
\* raising key has a channel_processing entry in the failure log, and the
\* percent is 100.
C5_ChannelFailureIsolated ==
  \A t \in Tracks :
    FanoutOver(t) =>
      /\ InvokedKeys(t) = RoutedKeys
      /\ \A i \in 1..Len(trace[t]) :
           trace[t][i].e = "raised" => LoggedChannelFailure(t, trace[t][i].a)
      /\ PercentOf(Current(t)) = Pct(100)

\* channels [X, Y]: X raised, Y was invoked after that and ran to its end
C5_Witness ==
  \E t \in Tracks :
    /\ batch.channels = <<"son_got_acappellas", "son_got_drums">>
    /\ HappenedBefore(t, Event("raised", "son_got_acappellas", 0),
                         Event("invoke", "son_got_drums", 0))
    /\ ~Happened(t, Event("raised", "son_got_drums", 0))
    /\ LoggedChannelFailure(t, "son_got_acappellas")
    /\ pc[t] = "finished"
    /\ PercentOf(Current(t)) = Pct(100)

InBatch == 1..batch.n
LookupFails(t) == world[t].ctor = {"ok"} /\ world[t].info = {"null"}
AllSucceed(t) ==
  /\ world[t].ctor = {"ok"} /\ world[t].info = {"ok"} /\ world[t].fetch = {"ok"}
  /\ world[t].prep = {"ok"} /\ world[t].tool = {"exit0_good"} /\ world[t].chan = {"ok"}
C6_Scenario(k) ==
  /\ k \in InBatch
  /\ batch.n > 1
  /\ LookupFails(k)
  /\ \A t \in InBatch \ {k} : AllSucceed(t)
C6_Outcome(k) ==
  /\ Current(k) = [message |-> "Failed to get track info", percent |-> 0]
  /\ \E j \in 1..Len(faillog[k]) :
       faillog[k][j].reason = "track_info" /\ faillog[k][j].track_id = TrackId(k)
  /\ \A t \in InBatch \ {k} : PercentOf(Current(t)) = Pct(100)

\* C6: in a batch where the track-info lookup of track K returns null and
\* the other tracks meet no failure, every run of the threads ends with K's
\* session at the failure message and percent 0, a track_info entry in K's
\* failure log, and every other session at percent 100.
C6_BatchIsolation == <>[](\A k \in Tracks : C6_Scenario(k) => C6_Outcome(k))

C6_Witness ==
  /\ C6_Scenario(1)
  /\ C6_Outcome(1)
  /\ \A t \in InBatch : pc[t] = "finished"

InDispatch ==
  {t \in Tracks : pc[t] \notin {"unsubmitted", "queued", "returning", "raised", "finished"}}
Holding == {t \in Tracks : pc[t] \notin {"unsubmitted", "queued", "finished"}}

\* C7: never more than max_concurrent dispatches are executing; the
\* semaphore's permits and its holders add up to max_concurrent.
C7_ConcurrencyBound ==
  /\ Cardinality(InDispatch) <= batch.max_concurrent
  /\ Cardinality(Holding) + sem = batch.max_concurrent

\* more tracks than permits: one dispatch is downloading, another waits
C7_Witness ==
  /\ batch.n > batch.max_concurrent
  /\ Cardinality(InDispatch) = batch.max_concurrent
  /\ \E t \in Tracks : pc[t] = "download"
  /\ \E t \in Tracks : pc[t] = "queued"


\* ---------------------------------------------------------------------------
\* Claims about the progress records written during a dispatch.

ProgressEvents(t) ==
    { i \in 1..Len(trace[t]) : trace[t][i].e = "progress" }

PercentInRange(p) == 0 <= p /\ p <= Pct(100)

\* C11: every progress record ever stored, whoever writes it (dispatcher,
\* fallback engine, processor helpers, the per-channel completion update),
\* has 0 <= percent <= 100.
C11_PercentInRange ==
    /\ \A s \in DOMAIN store : PercentInRange(Loads(store[s]).percent)
    /\ \A t \in Tracks : \A i \in ProgressEvents(t) :
           PercentInRange(trace[t][i].n)

LastProgress(t) ==
    LET S == ProgressEvents(t)
    IN  trace[t][CHOOSE i \in S : \A j \in S : j <= i]

GotStems(t) == "stem_base_path" \in DOMAIN args[t]
DispatchEnded(t) == pc[t] \in {"returning", "finished"}
LoggedReason(t, reason) ==
    \E j \in 1..Len(faillog[t]) : faillog[t][j].reason = reason

\* C12: a dispatch that obtained usable stems ends with a last progress
\* write of percent 100, and that is the record left in the store, whatever
\* the channels did: all succeed, some or all raise, some or all keys are
\* unknown, or the list is empty.
C12_CompleteAtHundred ==
    \A t \in Tracks :
        (GotStems(t) /\ DispatchEnded(t)) =>
            /\ ProgressEvents(t) # {}
            /\ LastProgress(t).n = Pct(100)
            /\ LastProgress(t).a = "All processing complete"
            /\ PercentOf(Current(t)) = Pct(100)

\* an unknown key and a raising processor in one list, and the empty list
C12_Witness ==
    /\ pc[1] = "finished"
    /\ GotStems(1)
    /\ LoggedReason(1, "unknown_channel")
    /\ LoggedReason(1, "channel_processing")
    /\ LastProgress(1).n = Pct(100)

\* the keys of the caller's list the loop has finished with
HandledKeys(t) ==
    LET n == Len(batch.channels)
        done == IF pc[t] \in {"channel", "returning", "finished"}
                THEN frame[t].ch - 1 ELSE frame[t].ch
    IN  SubSeq(batch.channels, 1, IF done > n THEN n ELSE done)
UnknownKeys(keys) ==
    SelectSeq(keys, LAMBDA k : k \notin DOMAIN CHANNEL_MODULE_MAP)
UnknownLogged(t) ==
    LET es == SelectSeq(faillog[t], LAMBDA en : en.reason = "unknown_channel")
    IN  [i \in 1..Len(es) |-> es[i].details.channel_key]

\* C13: each key of the list that is not in CHANNEL_MODULE_MAP gets one
\* 'unknown_channel' entry in the failure log (in list order, carrying the
\* key), no processor is invoked for it, nothing is raised out of the
\* dispatch, and the loop goes on: the routed keys after it are invoked.
C13_UnknownChannelSkipped ==
    \A t \in Tracks :
        frame[t].ch > 0 =>
            /\ UnknownLogged(t) = UnknownKeys(HandledKeys(t))
            /\ \A i \in 1..Len(faillog[t]) :
                   faillog[t][i].reason = "unknown_channel" =>
                       faillog[t][i].track_id = TrackId(t)
            /\ \A i \in 1..Len(InvokedKeys(t)) :
                   InvokedKeys(t)[i] \in DOMAIN CHANNEL_MODULE_MAP
            /\ pc[t] # "raised"
            /\ ~LoggedReason(t, "dispatch_uncaught")
            /\ DispatchEnded(t) => InvokedKeys(t) = RoutedKeys

\* an unknown key first, then a routed key whose processor was invoked
C13_Witness ==
    /\ pc[1] = "finished"
    /\ Len(batch.channels) = 2
    /\ batch.channels[1] \notin DOMAIN CHANNEL_MODULE_MAP
    /\ UnknownLogged(1) = <<batch.channels[1]>>
    /\ InvokedKeys(1) = <<batch.channels[2]>>

\* ---------------------------------------------------------------------------
\* Claims about process_all_tracks.

Escapes(k) == k \in InBatch /\ world[k].ctor = {"raise"}
LoggedFor(t, reason) ==
    \E j \in 1..Len(faillog[t]) :
        faillog[t][j].reason = reason /\ faillog[t][j].track_id = TrackId(t)
BatchDone == \A t \in InBatch : pc[t] = "finished"

C14_Outcome(k) ==
    /\ Happened(k, Event("raise", "ContentBase", 0))
    /\ LoggedFor(k, "dispatch_uncaught")
    /\ BatchDone
    /\ \A t \in InBatch \ {k} :
           /\ trace[t] # <<>>
           /\ InvokedKeys(t) = RoutedKeys
           /\ PercentOf(Current(t)) = Pct(100)
           /\ faillog[t] = <<>>

\* C14: when an exception leaves dispatch_stem_processing for one track of
\* a batch, run_with_semaphore catches it and logs 'dispatch_uncaught' for
\* that track, and every other track is still dispatched and runs to its
\* own end: every run of the threads settles in such a state.
C14_BatchGuard == <>[](\A k \in Tracks : Escapes(k) => C14_Outcome(k))

C14_Witness ==
    /\ batch.n > 1
    /\ Escapes(1)
    /\ C14_Outcome(1)
    /\ Current(1).percent = 0

\* the reason logged and the message stored for the failure a trace event
\* stands for; <<>> for an event that is no failure
FailureOf(t, ev) ==
    CASE ev.e = "provider" /\ ev.n # 1 ->
           <<"track_info", "Failed to get track info">>
      [] ev.e = "fetch" /\ ev.a # "ok" ->
           <<"download_audio", "Audio download failed">>
      [] ev.e = "raised" ->
           <<"channel_processing", "Error processing " \o Upper(ev.a) \o " - continuing">>
      [] ev.e = "raise" ->
           <<"dispatch_uncaught", "Uncaught error for " \o TrackId(t) \o " - continuing">>
      [] OTHER -> <<>>
RecordedAfter(t, i, f) ==
    /\ \E j \in (i + 1)..Len(trace[t]) : trace[t][j] = Event("log", f[1], 0)
    /\ LoggedFor(t, f[1])
    /\ \E j \in (i + 1)..Len(trace[t]) :
           trace[t][j].e = "progress" /\ trace[t][j].a = f[2]
SeparationFailed(t) == EngineReturned(t) /\ frame[t].ret.model = None
CallerRaised == mainpc = 0

\* C15: process_all_tracks never raises to its caller, also when the failure
\* logger itself raises inside a pool thread; and where the log can be
\* written, each failure of a dispatch that has ended (track info, download,
\* separation on all models, a channel's exception, an exception leaving the
\* dispatch) has left a failure-log entry with its reason and a progress
\* write to the track's session after it.
C15_NothingPropagates ==
    /\ ~CallerRaised
    /\ mainpc \in 1..(batch.n + 2)
    /\ \A t \in Tracks :
         (logOk /\ DispatchEnded(t)) =>
            /\ \A i \in 1..Len(trace[t]) :
                   FailureOf(t, trace[t][i]) # <<>> =>
                       RecordedAfter(t, i, FailureOf(t, trace[t][i]))
            /\ SeparationFailed(t) =>
                   /\ LoggedFor(t, "separation_failed")
                   /\ Current(t) = [message |-> "Stem separation failed on all models",
                                    percent |-> 0]

\* the caller has returned although the guard's own log_failure raised in
\* the pool thread
C15_Witness ==
    /\ mainpc = batch.n + 2
    /\ ~CallerRaised
    /\ FutureExceptions = {1}
    /\ Happened(1, Event("raise", "ContentBase", 0))

DerivedId(t) == BatchSession \o "__" \o TrackId(t)
Acts(t) == pc'[t] # pc[t] \/ frame'[t] # frame[t] \/ trace'[t] # trace[t]

\* a step changes a stored record only if it is a step of the dispatch whose
\* derived session id names that record
C16_Frame ==
    /\ \A s \in DOMAIN store \cup DOMAIN store' :
           StoreAt(store', s) # StoreAt(store, s) =>
               \E t \in InBatch : Acts(t) /\ s = DerivedId(t)
    /\ \A t \in InBatch : \A u \in InBatch \ {t} :
           Acts(t) => StoreAt(store', DerivedId(u)) = StoreAt(store, DerivedId(u))

\* what is stored under a track's derived id is that track's own last write
C16_OwnRecord ==
    \A t \in InBatch :
        /\ \A u \in InBatch \ {t} : DerivedId(u) # DerivedId(t)
        /\ ProgressEvents(t) # {} =>
               /\ DerivedId(t) \in DOMAIN store
               /\ Loads(store[DerivedId(t)]).message = LastProgress(t).a
               /\ Loads(store[DerivedId(t)]).percent = LastProgress(t).n
        /\ ProgressEvents(t) = {} => DerivedId(t) \notin DOMAIN store

\* C16: in a batch of distinct tracks, the dispatch of track t changes only
\* the progress record of session '<batch>__<t>', and what that session
\* holds is always the last record t itself wrote; a step of t, failing or
\* not, leaves the record of every other track's session as it was.
C16_CrossTrackFrame == [][C16_Frame]_vars /\ [](C16_OwnRecord)

\* one track has failed and finished while the other's record stands at 100
C16_Witness ==
    /\ batch.n = 2
    /\ \E k \in InBatch : \E u \in InBatch \ {k} :
           /\ ~AllSucceed(k)
           /\ pc[k] = "finished" /\ pc[u] = "finished"
           /\ faillog[k] # <<>>
           /\ Loads(store[DerivedId(u)]).percent = Pct(100)
           /\ Loads(store[DerivedId(k)]).percent = 0

\* ---------------------------------------------------------------------------
\* Claims about validate_stems.

Present(f) == f # NoFile
MeetsLimits(f) ==
    /\ Present(f)
    /\ f.size >= MIN_BYTES
    /\ f.decodable
    /\ f.duration >= MIN_DURATION_S
    /\ f.rms >= MIN_RMS
AllValid(dir) == \A n \in ExpectedNames : MeetsLimits(dir[n])

\* C17: for a directory whose four expected files are all present, at least
\* MIN_BYTES long, decodable, at least MIN_DURATION_S long and at least
\* MIN_RMS loud, validate_stems returns ok = true and an empty problems map.
C17_ValidDirectoryPasses ==
    (vres.called /\ AllValid(vdir)) =>
        /\ ~vres.raised
        /\ vres.value.ok = TRUE
        /\ vres.value.problems = EmptyMap

\* every file exactly at the three limits
C17_Witness ==
    /\ vres.called
    /\ \A n \in ExpectedNames : vdir[n] = EdgeFile
    /\ vres.value.ok

\* C18: each expected file that is absent is in problems with the reason
\* 'missing' and ok is false, whatever the other three files are.
C18_MissingReported ==
    vres.called =>
        \A n \in ExpectedNames :
            ~Present(vdir[n]) =>
                /\ ~vres.raised
                /\ n \in DOMAIN vres.value.problems
                /\ vres.value.problems[n] = "missing"
                /\ vres.value.ok = FALSE

\* one file absent beside three good ones
C18_Witness ==
    /\ vres.called
    /\ ~Present(vdir["bass.mp3"])
    /\ \A n \in ExpectedNames \ {"bass.mp3"} : vdir[n] = GoodFile
    /\ DOMAIN vres.value.problems = {"bass.mp3"}

\* C19: validate_stems returns a result for every state of the four files;
\* a file that is large enough but cannot be decoded is reported as
\* 'silent_or_short' and no exception leaves the call.
C19_NeverThrows ==
    vres.called =>
        /\ ~vres.raised
        /\ DOMAIN vres.value.problems \subseteq ExpectedNames
        /\ vres.value.ok = (vres.value.problems = EmptyMap)
        /\ \A n \in ExpectedNames :
               (Present(vdir[n]) /\ vdir[n].size >= MIN_BYTES /\ ~vdir[n].decodable) =>
                   /\ n \in DOMAIN vres.value.problems
                   /\ vres.value.problems[n] = "silent_or_short"

\* a large file that is no audio, beside three good ones
C19_Witness ==
    /\ vres.called
    /\ vdir["vocals.mp3"] = CorruptFile
    /\ \A n \in ExpectedNames \ {"vocals.mp3"} : vdir[n] = GoodFile
    /\ vres.value.problems = [n \in {"vocals.mp3"} |-> "silent_or_short"]

\* ---------------------------------------------------------------------------
\* Claims about log_failure.

\* the reasons of the log_failure calls a dispatch made so far, in order
LogCalls(t) ==
    LET cs == SelectSeq(trace[t], LAMBDA ev : ev.e \in {"log", "log_raised"})
    IN  [i \in 1..Len(cs) |-> cs[i].a]
LoggedReasons(t) == [i \in 1..Len(faillog[t]) |-> faillog[t][i].reason]

\* C20: every call of log_failure appends one entry with a time stamp, the
\* track id, the reason and the details to the log of its session, the
\* entries written before stay as they were, and no call raises, also when
\* fail_logs cannot be written: the entries of the log are the calls made,
\* one for one and in order.
C20_LoggerContract ==
    \A t \in Tracks :
        /\ LoggedReasons(t) = LogCalls(t)
        /\ \A i \in 1..Len(faillog[t]) :
               /\ DOMAIN faillog[t][i] = {"ts", "track_id", "reason", "details"}
               /\ faillog[t][i].track_id = TrackId(t)
        /\ \A i \in 1..Len(trace[t]) : trace[t][i].e # "log_raised"

\* ---------------------------------------------------------------------------
\* Claims about the course of one dispatch.

\* the attempt being checked did not launch, exited with a non-zero status,
\* or left no output directory
FailedAttempt(t) ==
    /\ pc[t] = "check"
    /\ \/ ~frame[t].proc.launched
       \/ frame[t].proc.returncode # 0
       \/ fs[t][CurrentModel(t)] = NoDir
MovesOn(t) ==
    /\ trace'[t] = trace[t]
    /\ store' = store
    /\ faillog' = faillog
    /\ IF frame[t].idx < Len(FALLBACK_MODELS)
       THEN pc'[t] = "announce" /\ frame'[t].idx = frame[t].idx + 1
       ELSE pc'[t] = "engine_return" /\ frame'[t].ret.model = None
C21_Step == \A t \in Tracks : (FailedAttempt(t) /\ pc'[t] # pc[t]) => MovesOn(t)
\* in the record of the dispatch, a run that did not launch or exited
\* non-zero is followed by the next attempt's announcement or by the
\* dispatcher's report that all models failed, never by a validation
C21_NoValidation ==
    \A t \in Tracks : \A i \in 1..(Len(trace[t]) - 1) :
        (trace[t][i].e = "tool" /\ trace[t][i].n < 2) =>
            LET k == ModelIndex(trace[t][i].a) IN
            trace[t][i + 1] =
                IF k < Len(FALLBACK_MODELS)
                THEN Event("progress", AttemptMessage(FALLBACK_MODELS[k + 1], k + 1), Pct(12))
                ELSE Event("progress", "Stem separation failed on all models", 0)

\* C21: an attempt whose tool could not be launched, exited with a non-zero
\* status or left no output directory makes the engine go on to the next
\* model (or end its loop after the last one) with nothing written, nothing
\* raised and no validation of that model's directory.
C21_EngineResilience == [][C21_Step]_vars /\ [](C21_NoValidation)

\* three models failing in the three ways, and the engine returning no model
C21_Witness ==
    /\ Happened(1, Event("tool", FALLBACK_MODELS[1], 0))
    /\ Happened(1, Event("tool", FALLBACK_MODELS[2], 1))
    /\ Happened(1, Event("tool", FALLBACK_MODELS[3], 2))
    /\ fs[1][FALLBACK_MODELS[3]] = NoDir
    /\ pc[1] = "finished"
    /\ frame[1].ret.model = None
    /\ ~LoggedReason(1, "dispatch_uncaught")

EventsOf(t, kinds) == {i \in 1..Len(trace[t]) : trace[t][i].e \in kinds}
LookupFailedAt(t) == {i \in EventsOf(t, {"provider"}) : trace[t][i].n # 1}
CollaboratorKinds == {"fetch", "prep", "validate", "tool", "invoke"}

\* C22: when the track-info lookup returns nothing or fails, the dispatch
\* writes the failure progress record, appends one 'track_info' entry to
\* the failure log and returns: the lookup, that write and that entry are
\* all it ever does, so the fetcher, the preparer, the separation tool and
\* the channel processors are never called.
C22_TrackInfoFailureTerminal ==
    \A t \in Tracks : \A i \in LookupFailedAt(t) :
        /\ pc[t] \in {"returning", "finished"}
        /\ SubSeq(trace[t], i + 1, Len(trace[t])) =
               << Event("progress", "Failed to get track info", 0),
                  Event("log", "track_info", 0) >>
        /\ EventsOf(t, CollaboratorKinds) = {}
        /\ faillog[t] = << LogEntry(TrackId(t), "track_info",
                                    [message |-> "Failed to get track info"]) >>
        /\ Current(t) = [message |-> "Failed to get track info", percent |-> 0]

\* the provider raised, and the dispatch has ended
C22_Witness ==
    /\ Happened(1, Event("provider", TrackId(1), 2))
    /\ pc[1] = "finished"
    /\ Len(faillog[1]) = 1

FetchFailedAt(t) == {i \in EventsOf(t, {"fetch"}) : trace[t][i].a # "ok"}

\* C23: when the fetcher returns no unique id, or a path at which no file
\* exists, the dispatch appends one 'download_audio' entry to the failure
\* log and returns: after the fetch it only writes the failure record and
\* the entry, so preparation, the cache check, the separation tool and the
\* channel processors are never run.
C23_DownloadFailureTerminal ==
    \A t \in Tracks : \A i \in FetchFailedAt(t) :
        /\ pc[t] \in {"returning", "finished"}
        /\ SubSeq(trace[t], i + 1, Len(trace[t])) =
               << Event("progress", "Audio download failed", 0),
                  Event("log", "download_audio", 0) >>
        /\ EventsOf(t, CollaboratorKinds \ {"fetch"}) = {}
        /\ EventsOf(t, {"fetch"}) = {i}
        /\ Len(faillog[t]) = 1
        /\ faillog[t][1].reason = "download_audio"
        /\ faillog[t][1].track_id = TrackId(t)
        /\ DOMAIN faillog[t][1].details = {"uid", "mp3_path"}
        /\ ~GotStems(t)

\* the fetcher named a file that is not there
C23_Witness ==
    /\ Happened(1, Event("fetch", "nofile", 0))
    /\ faillog[1][1].details.uid = Uid(1)
    /\ pc[1] = "finished"

SeparationReported(t) == SeparationFailed(t) /\ pc[t] # "engine_return"

\* C24: when no cached directory validated and the engine returned no
\* model, the dispatch writes the failure record, appends one
\* 'separation_failed' entry carrying the problems mapping the engine
\* returned, and returns: no channel processor is invoked and no progress
\* write of the dispatch has percent 100.
C24_SeparationFailureTerminal ==
    \A t \in Tracks :
        SeparationReported(t) =>
            /\ pc[t] \in {"returning", "finished"}
            /\ SubSeq(trace[t], Len(trace[t]) - 1, Len(trace[t])) =
                   << Event("progress", "Stem separation failed on all models", 0),
                      Event("log", "separation_failed", 0) >>
            /\ faillog[t] = << LogEntry(TrackId(t), "separation_failed",
                                        [problems |-> frame[t].ret.validation.problems]) >>
            /\ frame[t].ret.validation.problems = [_ |-> "all_models_failed"]
            /\ EventsOf(t, {"invoke"}) = {}
            /\ \A i \in ProgressEvents(t) : trace[t][i].n # Pct(100)
            /\ \A i \in EventsOf(t, {"validate"}) : trace[t][i].n = 0
            /\ ~GotStems(t)
            /\ frame[t].ch = 0

\* a stale directory failed the cache check, then every model failed
C24_Witness ==
    /\ SeparationReported(1)
    /\ pc[1] = "finished"
    /\ Len(ToolEvents(1)) = Len(FALLBACK_MODELS)
    /\ EventsOf(1, {"validate"}) # {}
    /\ Current(1).percent = 0

PrepSucceeded(o) == o = "ok"

\* C25: the preparation of the input never ends the dispatch and leaves no
\* entry in the failure log, whether ffmpeg fails or cannot be run or its
\* file is missing or too small; every run of the separation tool in the
\* dispatch then gets the prepared copy when the preparation succeeded and
\* the original download otherwise.
C25_PreparationBestEffort ==
    \A t \in Tracks :
        /\ pc[t] \in {"cache", "announce", "run", "check"} => faillog[t] = <<>>
        /\ \A i \in EventsOf(t, {"prep"}) :
               /\ Len(trace[t]) = i => pc[t] = "cache"
               /\ \A j \in 1..i : trace[t][j].e \notin {"log", "log_raised"}
               /\ \A j \in EventsOf(t, {"split"}) :
                      /\ j > i
                      /\ trace[t][j].a =
                             IF PrepSucceeded(trace[t][i].a)
                             THEN PreparedCopyPath(args[t].universal_id)
                             ELSE args[t].mp3_path
        /\ \A j \in EventsOf(t, {"split"}) : EventsOf(t, {"prep"}) # {}
        /\ \A j \in EventsOf(t, {"tool"}) : j > 1 /\ trace[t][j - 1].e = "split"

\* the prepared file has exactly the limit's size: the tool ran on the
\* original download, and the dispatch went on to its channels
C25_Witness ==
    /\ Happened(1, Event("prep", "edge", 0))
    /\ Happened(1, Event("split", Mp3Path(1), 0))
    /\ ~Happened(1, Event("split", PreparedCopyPath(Uid(1)), 0))
    /\ GotStems(1)
    /\ pc[1] = "finished"

\* the state of the dispatcher's state machine a dispatch is in.  The
\* constructor and the track-info lookup are one step of the model, so a
\* dispatch leaves INIT through TRACK_INFO within that step.
Aborted(t) == pc[t] = "raised" \/ Happened(t, Event("raise", "ContentBase", 0))
Completed(t) ==
    /\ ProgressEvents(t) # {}
    /\ LastProgress(t) = Event("progress", "All processing complete", Pct(100))
DispatchState(t) ==
    CASE pc[t] \in {"unsubmitted", "queued"} -> "NOT_STARTED"
      [] pc[t] = "start" -> "INIT"
      [] Aborted(t) -> "ABORTED"
      [] pc[t] = "download" -> "AUDIO_ACQUIRED"
      [] pc[t] = "prepare" -> "AUDIO_PREPARED"
      [] pc[t] \in {"cache", "announce", "run", "check", "engine_return"} -> "STEMS_READY"
      [] pc[t] \in {"fanout", "channel", "process", "chan_done", "chan_failed"} ->
             "CHANNEL_FANOUT"
      [] Completed(t) -> "COMPLETE"
      [] OTHER -> "FAILED"
\* the transitions of the machine; TRACK_INFO is passed within the step
\* that leaves INIT, so its successors are those of INIT here
Transitions ==
    { <<"NOT_STARTED", "INIT">>,
      <<"INIT", "AUDIO_ACQUIRED">>, <<"INIT", "FAILED">>, <<"INIT", "ABORTED">>,
      <<"AUDIO_ACQUIRED", "AUDIO_PREPARED">>, <<"AUDIO_ACQUIRED", "FAILED">>,
      <<"AUDIO_PREPARED", "STEMS_READY">>,
      <<"STEMS_READY", "CHANNEL_FANOUT">>, <<"STEMS_READY", "FAILED">>,
      <<"CHANNEL_FANOUT", "COMPLETE">> }
LastReason(t) == faillog[t][Len(faillog[t])].reason
DispatchStateNext(t) ==
    CASE pc'[t] \in {"unsubmitted", "queued"} -> "NOT_STARTED"
      [] pc'[t] = "start" -> "INIT"
      [] pc'[t] = "raised" \/ Happened(t, Event("raise", "ContentBase", 0)) -> "ABORTED"
      [] pc'[t] = "download" -> "AUDIO_ACQUIRED"
      [] pc'[t] = "prepare" -> "AUDIO_PREPARED"
      [] pc'[t] \in {"cache", "announce", "run", "check", "engine_return"} -> "STEMS_READY"
      [] pc'[t] \in {"fanout", "channel", "process", "chan_done", "chan_failed"} ->
             "CHANNEL_FANOUT"
      [] /\ trace'[t] # <<>>
         /\ trace'[t][Len(trace'[t])] =
                Event("progress", "All processing complete", Pct(100)) -> "COMPLETE"
      [] OTHER -> "FAILED"
C26_Step ==
    \A t \in InBatch :
        LET from == DispatchState(t)
            to == DispatchStateNext(t)
        IN  /\ from # to => <<from, to>> \in Transitions
            /\ from \in {"FAILED", "COMPLETE"} =>
                   /\ trace'[t] = trace[t]
                   /\ StoreAt(store', DerivedId(t)) = StoreAt(store, DerivedId(t))
\* a failed dispatch failed in the state its log entry names
C26_FailedWhere ==
    \A t \in InBatch :
        DispatchState(t) = "FAILED" =>
            /\ Len(faillog[t]) = 1
            /\ LastReason(t) \in {"track_info", "download_audio", "separation_failed"}
            /\ LastReason(t) = "track_info" =>
                   LookupFailedAt(t) # {} /\ EventsOf(t, CollaboratorKinds) = {}
            /\ LastReason(t) = "download_audio" =>
                   FetchFailedAt(t) # {} /\ EventsOf(t, {"prep"}) = {}
            /\ LastReason(t) = "separation_failed" =>
                   SeparationFailed(t) /\ EventsOf(t, {"invoke"}) = {}

\* C26: a dispatch moves through INIT, TRACK_INFO, AUDIO_ACQUIRED,
\* AUDIO_PREPARED, STEMS_READY, CHANNEL_FANOUT and COMPLETE in that order and
\* never back; it enters FAILED only from TRACK_INFO, AUDIO_ACQUIRED or
\* STEMS_READY; in FAILED or COMPLETE it calls no collaborator and writes no
\* progress record any more.
C26_StateMachine == [][C26_Step]_vars /\ [](C26_FailedWhere)

\* a dispatch that went through every state to COMPLETE
C26_Witness ==
    /\ DispatchState(1) = "COMPLETE"
    /\ pc[1] = "finished"
    /\ EventsOf(1, {"provider"}) # {} /\ EventsOf(1, {"fetch"}) # {}
    /\ EventsOf(1, {"prep"}) # {} /\ EventsOf(1, {"tool"}) # {}
    /\ EventsOf(1, {"invoke"}) # {}

\* what the loop does first with a key: it invokes the key's processor, or
\* logs the key as unknown
HandlingEvents(t) ==
    SelectSeq(trace[t], LAMBDA ev : ev.e = "invoke" \/ ev = Event("log", "unknown_channel", 0))
HandlingOf(key) ==
    IF key \in DOMAIN CHANNEL_MODULE_MAP
    THEN Event("invoke", key, 0)
    ELSE Event("log", "unknown_channel", 0)
\* how the invocation at trace index j ended, as the dispatcher recorded it
EndingsOf(t, j, upto) ==
    {i \in (j + 1)..upto :
        \/ trace[t][i] = Event("raised", trace[t][j].a, 0)
        \/ /\ trace[t][i].e = "progress"
           /\ trace[t][i].a = Upper(trace[t][j].a) \o " done"}
InvokedAt(t) == EventsOf(t, {"invoke"})

\* C27: the channels of a track are handled one after the other in the order
\* of the caller's list, each key once: the handling events of a dispatch
\* are those of a prefix of the list, of the whole list once the fanout is
\* over, and between an invocation and the next one the earlier processor
\* has returned or raised, once.
C27_FanoutInOrder ==
    \A t \in InBatch :
        /\ Len(HandlingEvents(t)) <= Len(batch.channels)
        /\ \A i \in 1..Len(HandlingEvents(t)) :
               HandlingEvents(t)[i] = HandlingOf(batch.channels[i])
        /\ UnknownLogged(t) = UnknownKeys(SubSeq(batch.channels, 1, Len(HandlingEvents(t))))
        /\ (GotStems(t) /\ DispatchEnded(t)) =>
               Len(HandlingEvents(t)) = Len(batch.channels)
        /\ \A j \in InvokedAt(t) : \A k \in InvokedAt(t) :
               (j < k /\ ~\E m \in InvokedAt(t) : j < m /\ m < k) =>
                   Cardinality(EndingsOf(t, j, k - 1)) = 1
        /\ \A j \in InvokedAt(t) :
               pc[t] \in {"channel", "returning", "finished"} =>
                   Cardinality(EndingsOf(t, j, Len(trace[t]))) >= 1

\* two routed keys, the second invoked after the first has raised
C27_Witness ==
    /\ pc[1] = "finished"
    /\ Len(batch.channels) = 2
    /\ batch.channels[1] # batch.channels[2]
    /\ InvokedKeys(1) = batch.channels
    /\ Happened(1, Event("raised", batch.channels[1], 0))

\* ---------------------------------------------------------------------------
\* Claims about the completion counters of the fanout.

DoneMessages == {Upper(k) \o " done" : k \in DOMAIN CHANNEL_MODULE_MAP}
DoneAt(t) == {i \in ProgressEvents(t) : trace[t][i].a \in DoneMessages}
\* channels whose processor had returned when the event at index i was written
FinishedUpTo(t, i) == Cardinality({j \in DoneAt(t) : j <= i})
Requested == Len(batch.channels)
FanoutStarted(t) == Happened(t, Event("progress", "Processing channels", Pct(46)))
JustDone(t) == pc[t] = "channel" /\ ProgressEvents(t) # {} /\ LastProgress(t).a \in DoneMessages

\* C28: the record the dispatcher stores after a channel is done has percent
\* 46 + floor(completed / total * 54), total being the number of channels
\* requested and completed the number finished so far; the record written
\* at the start of the fanout has percent 46, completed 0 and that total.
C28_FanoutPercent ==
    \A t \in InBatch :
        /\ \A i \in DoneAt(t) :
               trace[t][i].n = Pct(46 + (FinishedUpTo(t, i) * 54) \div Requested)
        /\ JustDone(t) =>
               PercentOf(Current(t)) =
                   Pct(46 + (Cardinality(DoneAt(t)) * 54) \div Requested)
        /\ pc[t] = "channel" /\ frame[t].ch = 1 =>
               /\ PercentOf(Current(t)) = Pct(46)
               /\ MetaGet(MetaOf(Current(t)), "completed", -1) = 0
               /\ MetaGet(MetaOf(Current(t)), "total", -1) = Requested

StoredCount(t, k) == MetaGet(MetaOf(Current(t)), k, -1)

\* C29: between the channels of a fanout, meta.completed of the stored
\* record is the number of processors that have returned without raising so
\* far (a failed or unknown channel adds nothing), and
\* 0 <= completed <= total.
C29_CompletedCount ==
    \A t \in InBatch :
        (FanoutStarted(t) /\ pc[t] \in {"channel", "process"}) =>
            /\ StoredCount(t, "completed") = Cardinality(DoneAt(t))
            /\ 0 <= StoredCount(t, "completed")
            /\ StoredCount(t, "completed") <= StoredCount(t, "total")

\* a write that carries the counters of the record it read: the same total,
\* and a completed count that is still there and has not gone down
Carries(read, wrote) ==
    /\ MetaGet(MetaOf(wrote), "total", -1) = MetaGet(MetaOf(read), "total", -1)
    /\ MetaGet(MetaOf(wrote), "completed", -1) >= MetaGet(MetaOf(read), "completed", -1)

WritesCarry(read, writes) ==
    \A i \in 1..Len(writes) :
        Carries(IF i = 1 THEN read ELSE writes[i - 1], writes[i])

InFanout(t) ==
    FanoutStarted(t) /\ pc[t] \in {"channel", "process", "chan_done", "chan_failed"}

\* C30: every progress write between the start of the fanout and COMPLETE,
\* by the dispatcher or by a processor's update_progress /
\* incremental_progress / mark_step_complete, carries forward the
\* meta.completed and meta.total of the record it read, so the total written
\* at the start of the fanout is still stored when the dispatcher computes
\* the percent after each channel.
C30_MetaCarried ==
    \A t \in InBatch :
        /\ InFanout(t) => StoredCount(t, "total") = Requested
        /\ (FanoutStarted(t) /\ pc[t] = "process") =>
               \A o \in world[t].chan :
                   WritesCarry(Current(t),
                               ScriptWrites(Current(t),
                                            ProcessorCalls(ChannelKey(t), o,
                                                           args[t].track_info.name)))

\* ---------------------------------------------------------------------------
\* Claims about the order of progress writes, the engine's messages, the
\* batch, the arguments and the store.

ReachedComplete(t) ==
    /\ DispatchEnded(t)
    /\ ProgressEvents(t) # {}
    /\ LastProgress(t).a = "All processing complete"

\* C31: for a dispatch that reaches COMPLETE the percent values written to
\* its session, in the order they were written, never decrease and the last
\* one is 100.
C31_PercentOrdering ==
    \A t \in InBatch :
        ReachedComplete(t) =>
            /\ \A i \in ProgressEvents(t) : \A j \in ProgressEvents(t) :
                   i < j => trace[t][i].n <= trace[t][j].n
            /\ LastProgress(t).n = Pct(100)

\* a message naming the model and the 1-based number n of the attempt
Announcement(model, n) ==
    "Separating with " \o model \o " (attempt " \o ToString(n) \o ")"
ToolAt(t) == EventsOf(t, {"tool"})
\* the 1-based number of the attempt whose tool event is at trace index i
AttemptNumber(t, i) == Cardinality({k \in ToolAt(t) : k <= i})
AnnouncedBefore(t, i) ==
    \E j \in ProgressEvents(t) :
        /\ j < i
        /\ trace[t][j].a = Announcement(trace[t][i].a, AttemptNumber(t, i))
        /\ ~\E k \in ToolAt(t) \cup ProgressEvents(t) : j < k /\ k < i

\* C32: every invocation of the separation tool is preceded by a progress
\* write naming the model and the 1-based number of the attempt, with no
\* other write and no other invocation in between; when the tool is about
\* to run, that announcement is the record stored for the session.
C32_AttemptAnnounced ==
    \A t \in InBatch :
        /\ \A i \in ToolAt(t) : AnnouncedBefore(t, i)
        /\ pc[t] = "run" =>
               Current(t).message = Announcement(CurrentModel(t), Len(ToolEvents(t)) + 1)

\* the third model is attempted after two others
C32_Witness ==
    /\ Len(ToolEvents(1)) = Len(FALLBACK_MODELS)
    /\ Happened(1, Event("progress", Announcement(FALLBACK_MODELS[3], 3), Pct(12)))

\* the engine has just written its retry message for the model it tried last
JustRetried(t) ==
    /\ pc[t] \in {"announce", "engine_return"}
    /\ ToolEvents(t) # <<>>
    /\ trace[t][Len(trace[t])].e = "progress"
    /\ trace[t][Len(trace[t])].n = Pct(20)
LastTried(t) == ToolEvents(t)[Len(ToolEvents(t))].a
\* the directories that differ from dir in one file
Variants(dir) == {[dir EXCEPT ![n] = f] : n \in ExpectedNames, f \in FileStates}

\* C33: when a model's output directory fails validation, the progress write
\* that follows lists the stems that failed and the reason of each: it is the
\* message of that directory's problems and of no other problems, so a
\* directory failing for other stems or for other reasons would have been
\* reported differently.
C33_RetryReason ==
    \A t \in InBatch :
        JustRetried(t) =>
            LET model == LastTried(t)
                found == ValidateStems(fs[t][model]).problems
            IN  /\ found # EmptyMap
                /\ LastProgress(t).a = RetryMessage(model, found)
                /\ \A d \in Variants(fs[t][model]) :
                       ValidateStems(d).problems # found =>
                           RetryMessage(model, ValidateStems(d).problems) # LastProgress(t).a


InEngine(t) == pc[t] \in {"announce", "run", "check"}
TimesTried(t, m) == Cardinality({i \in ToolAt(t) : trace[t][i].a = m})
C34_Bounded ==
    \A t \in InBatch :
        /\ \A m \in Models : TimesTried(t, m) <= 1
        /\ Len(ToolEvents(t)) <= Len(FALLBACK_MODELS)
        /\ (EngineReturned(t) /\ frame[t].ret.model # None) =>
               /\ frame[t].ret.dir = "separated/" \o frame[t].ret.model \o "/" \o args[t].universal_id
               /\ frame[t].ret.validation.ok = TRUE
               /\ Happened(t, Event("tool", frame[t].ret.model, 2))

\* C34: the engine of the dispatched track (track 1, the only one of this
\* specification) always comes back, every tool invocation returning; it
\* runs the tool at most once per candidate model and so at most
\* len(FALLBACK_MODELS) times, and the model it returns comes with that
\* model's own output directory and a validation result whose ok is true.
C34_EngineTerminates ==
    /\ [](C34_Bounded)
    /\ InEngine(1) ~> EngineReturned(1)

\* all candidates tried, the last one returned
C34_Witness ==
    /\ EngineReturned(1)
    /\ Len(ToolEvents(1)) = Len(FALLBACK_MODELS)
    /\ frame[1].ret.model = FALLBACK_MODELS[3]

\* the calls of dispatch_stem_processing made for track t so far: each call
\* starts by building the dispatcher, which looks the track up or raises
Dispatches(t) == EventsOf(t, {"provider", "raise"})
C35_Step ==
    \A t \in Tracks :
        /\ pc[t] = "finished" => pc'[t] = "finished"
        /\ pc'[t] = "start" => pc[t] \in {"queued", "start"}
        /\ pc'[t] = "queued" => pc[t] \in {"unsubmitted", "queued"}
        /\ pc'[t] = "unsubmitted" => pc[t] = "unsubmitted"
        /\ (pc[t] \in {"returning", "raised"} /\ pc'[t] = "finished") => sem' = sem + 1
C35_Safe ==
    /\ \A t \in InBatch :
           /\ Cardinality(Dispatches(t)) <= 1
           /\ pc[t] = "finished" => Cardinality(Dispatches(t)) = 1
    /\ BatchDone => sem = batch.max_concurrent
    /\ mainpc = batch.n + 2 => BatchDone

\* C35: every track of the batch is dispatched, once; a track that failed
\* is not run again; the permit is given back on every way out of a
\* dispatch, the exception path included; process_all_tracks returns only
\* when every dispatch has finished, and it does return.
C35_BatchProgress ==
    /\ [][C35_Step]_vars
    /\ [](C35_Safe)
    /\ <>[](mainpc = batch.n + 2 /\ BatchDone /\ sem = batch.max_concurrent)

\* two tracks and one permit, one dispatch left by an exception
C35_Witness ==
    /\ batch.n > batch.max_concurrent
    /\ mainpc = batch.n + 2
    /\ \E t \in InBatch : Happened(t, Event("raise", "ContentBase", 0))
    /\ \E t \in InBatch : PercentOf(Current(t)) = Pct(100)

Reasons == {"missing", "too_small", "silent_or_short"}
\* the outcome for one file, decided in the order of the claim
Classified(f) ==
    IF ~Present(f) THEN "missing"
    ELSE IF f.size < MIN_BYTES THEN "too_small"
    ELSE IF ~f.decodable \/ f.duration < MIN_DURATION_S \/ f.rms < MIN_RMS
         THEN "silent_or_short"
    ELSE "none"

\* C36: validate_stems gives each expected file one outcome, decided in the
\* order absent -> 'missing', below the size limit -> 'too_small' without
\* decoding it, undecodable or too short or too quiet -> 'silent_or_short',
\* else no entry; the keys of problems are expected names, the reasons are
\* those three, and ok is true exactly when problems is empty.
C36_Classification ==
    vres.called =>
        /\ ~vres.raised
        /\ DOMAIN vres.value.problems \subseteq ExpectedNames
        /\ \A n \in DOMAIN vres.value.problems : vres.value.problems[n] \in Reasons
        /\ vres.value.ok = (vres.value.problems = EmptyMap)
        /\ \A n \in ExpectedNames :
               /\ (Classified(vdir[n]) = "none") = (n \notin DOMAIN vres.value.problems)
               /\ n \in DOMAIN vres.value.problems =>
                      vres.value.problems[n] = Classified(vdir[n])
               /\ Classified(vdir[n]) \in {"missing", "too_small"} => n \notin vres.decoded

\* one file for each outcome: absent, one byte short, not decodable, at the limits
C36_Witness ==
    /\ vres.called
    /\ vdir["vocals.mp3"] = NoFile
    /\ vdir["drums.mp3"] = SmallFile
    /\ vdir["bass.mp3"] = CorruptFile
    /\ vdir["other.mp3"] = EdgeFile
    /\ vres.value.problems =
           [n \in {"vocals.mp3", "drums.mp3", "bass.mp3"} |->
              CASE n = "vocals.mp3" -> "missing"
                [] n = "drums.mp3" -> "too_small"
                [] OTHER -> "silent_or_short"]
    /\ vres.decoded = {"bass.mp3", "other.mp3"}

AddedKeys == {"track_info", "universal_id", "mp3_path", "stem_base_path"}
Overrides(t) == IF t \in DOMAIN batch.per_track THEN batch.per_track[t] ELSE EmptyMap
\* shared_args with every key of per_track_args[t] overriding the shared value
ExpectedArg(t, k) == IF k \in DOMAIN Overrides(t) THEN Overrides(t)[k] ELSE batch.shared[k]
Running(t) == pc[t] \notin {"unsubmitted", "queued"}
C37_Merged ==
    \A t \in InBatch :
        Running(t) =>
            /\ DOMAIN args[t] \ AddedKeys =
                   (DOMAIN batch.shared \cup DOMAIN Overrides(t)) \ AddedKeys
            /\ \A k \in (DOMAIN batch.shared \cup DOMAIN Overrides(t)) \ AddedKeys :
                   args[t][k] = ExpectedArg(t, k)
\* what a dispatch added is its own, and the caller's arguments have none of it
C37_Own ==
    /\ DOMAIN batch.shared \cap AddedKeys = {}
    /\ \A t \in InBatch :
           /\ "track_info" \in DOMAIN args[t] => args[t].track_info = TrackRecord(t)
           /\ "universal_id" \in DOMAIN args[t] => args[t].universal_id = Uid(t)
           /\ "mp3_path" \in DOMAIN args[t] => args[t].mp3_path = Mp3Path(t)
           /\ "stem_base_path" \in DOMAIN args[t] =>
                  \E m \in Models : args[t].stem_base_path = OutDirOf(t, m)
C37_Step ==
    /\ batch' = batch
    /\ \A t \in InBatch : \A u \in InBatch \ {t} :
           Acts(t) => args'[u] = args[u]

\* C37: a dispatch receives shared_args with the keys of
\* per_track_args[track_id] overriding the shared values; what a dispatch
\* adds to its arguments (track_info, universal_id, mp3_path,
\* stem_base_path) shows neither in another track's arguments nor in the
\* caller's shared_args.
C37_ArgsIsolated == [][C37_Step]_vars /\ [](C37_Merged /\ C37_Own)

\* two finished dispatches, one with an overridden key, each with its own additions
C37_Witness ==
    /\ batch.n = 2
    /\ pc[1] = "finished" /\ pc[2] = "finished"
    /\ args[1].genre = "Other" /\ args[2].genre = "Hip-Hop"
    /\ "stem_base_path" \in DOMAIN args[1] /\ "stem_base_path" \in DOMAIN args[2]
    /\ args[1].universal_id # args[2].universal_id

ProviderAnswers == {"ok", "null", "error"}
ProviderCalls(t) == EventsOf(t, {"provider"})
PassedIn(t) == "track_info" \in DOMAIN MergedArgs(t)

\* C38: a dispatcher instance that holds a track record, passed in its
\* arguments or fetched by an earlier get_track_info, answers every further
\* get_track_info with that record, keeps it and does not ask the provider,
\* whatever the provider would answer; a dispatch asks the provider at most
\* once, and not at all when the record was passed in.
C38_TrackInfoCached ==
    \A t \in InBatch :
        /\ Cardinality(ProviderCalls(t)) <= 1
        /\ (Running(t) /\ PassedIn(t)) => ProviderCalls(t) = {}
        /\ frame[t].base_info.held =>
               \A i \in ProviderAnswers :
                   /\ GetTrackInfo(frame[t].base_info, t, i).value = frame[t].base_info
                   /\ GetTrackInfo(frame[t].base_info, t, i).self = frame[t].base_info
                   /\ ~GetTrackInfo(frame[t].base_info, t, i).asked

\* a record passed in by the caller, held by the instance, the provider never asked
C38_Witness ==
    /\ pc[1] = "finished"
    /\ PassedIn(1)
    /\ frame[1].base_info = HeldInfo(TrackRecord(1))
    /\ ProviderCalls(1) = {}
    /\ GotStems(1)

InBody(w, kind) == wpc[w] = "crit" /\ wpc'[w] = "exit" /\ wop[w].kind = kind
C39_Step ==
    \A w \in Workers :
        /\ InBody(w, "set") =>
               /\ GetProgress(store', wop[w].sid) = wop[w].data
               /\ DOMAIN GetProgress(store', wop[w].sid) = DOMAIN wop[w].data
        /\ InBody(w, "get") =>
               /\ store' = store
               /\ wres'[w] = GetProgress(store, wop[w].sid)
        /\ (wop[w].kind = "get" /\ wop'[w].kind = "mutated") =>
               /\ wres'[w] # wres[w]
               /\ store' = store
               /\ GetProgress(store', wop[w].sid) = GetProgress(store, wop[w].sid)
C39_Stored ==
    /\ DOMAIN store \subseteq everSet
    /\ \A s \in StoreSessions :
           /\ s \in DOMAIN store => GetProgress(store, s) = written[s]
           /\ s \notin DOMAIN store => written[s] = NoRecord

\* C39: after set_progress(s, r) get_progress(s) returns r, and nothing of
\* the record stored before; get_progress leaves the store as it is and
\* creates no record for a session without one; a caller changing the record
\* it got changes nothing of what later get_progress calls return.
C39_WholeRecordReplace == [][C39_Step]_vars /\ [](C39_Stored)

\* a record without meta written over one with meta and read back, while a
\* caller holds a changed copy of an earlier read
C39_Witness ==
    \E w, v \in Workers : \E s \in StoreSessions :
        /\ w # v
        /\ wop[v].kind = "mutated" /\ wop[v].sid = s
        /\ "meta" \in DOMAIN wres[v]
        /\ wop[w].kind = "set" /\ wop[w].sid = s /\ wpc[w] = "exit"
        /\ "meta" \notin DOMAIN GetProgress(store, s)
        /\ GetProgress(store, s) = WorkerRecord(w)

====
